---- MODULE Spec2Model ----
(***************************************************************************)
(* Medication reminder scheduler of src/app.py: the worker loop            *)
(* medication_reminder_worker, its deduplication caches, the intake ledger *)
(* (table medication_intake_log), the notification table and the request   *)
(* handlers that touch the same state.                                     *)
(*                                                                         *)
(* Time is counted in whole minutes since midnight (UTC) of day 0.         *)
(***************************************************************************)
EXTENDS Integers, Sequences, FiniteSets, TLC

VARIABLES
    clock,          \* datetime.utcnow(), in minutes
    schedules,      \* table medication_schedules (sequence of rows, id order)
    prefs,          \* table notification_preferences: user -> row or NoRow
    ledger,         \* table medication_intake_log (committed rows, insert order)
    notifications,  \* table notifications (committed rows, insert order)
    reminder_cache, \* _med_reminder_cache: key -> instant of last initial send
    retry_cache,    \* _med_retry_cache: key -> [count, ts]
    missed_cache,   \* _med_missed_cache: key -> instant of the latch
    restarts,       \* number of process restarts so far
    life_mark,      \* history: Len(notifications) when the process started
    contacts,       \* table users: user -> what the contact column holds
    environ,        \* os.environ, as far as the channels read it
    outbound,       \* history: what the last create_notification call did
    tick_error,     \* history: schedule whose processing raised in the last
                    \* tick (the exception the worker caught), or None
    worker_alive,   \* the worker thread is still in its loop
    processes,      \* the processes of the deployment that ran __main__
    quiet_call,     \* an application of _is_quiet_hours: arguments, result
    med_reminder_lock,  \* _med_reminder_lock: the thread holding it, or None
    callers         \* the threads inside _should_send_med_reminder: thread
                    \* -> position, arguments and locals

\* The variables of the scheduler and its tables.
scheduler_vars == <<clock, schedules, prefs, ledger, notifications,
                    reminder_cache, retry_cache, missed_cache, restarts,
                    life_mark>>

\* The variables of the channels, of the worker thread and of the function
\* applications.
channel_vars == <<contacts, environ, outbound>>
thread_vars == <<tick_error, worker_alive, processes>>
guard_vars == <<med_reminder_lock, callers>>

vars == <<clock, schedules, prefs, ledger, notifications,
          reminder_cache, retry_cache, missed_cache, restarts, life_mark,
          contacts, environ, outbound, tick_error, worker_alive, processes,
          quiet_call, med_reminder_lock, callers>>

-----------------------------------------------------------------------------
(* Bounds of the model *)

\* minutes of wall-clock time explored after the worker's start
Horizon == 75
\* minutes of the following day explored when the run crosses midnight
NextDayMinutes == 10
\* process restarts (each empties the three caches)
MaxRestarts == 1
\* rows a patient inserts through the intake endpoint
MaxIntakeLogs == 1
\* observed calls of create_notification
MaxProcesses == 3

MaxDispatches == 1

(* Program constants *)

InitialWindowMin == 15
RetryWindowMin == 30
MissedAfterMin == 60
ResendGuardMin == 50
StaleAfterMin == 120
MaxRetryCount == 2
EvictAfterDays == 2

MinutesPerDay == 24 * 60

\* Python's None
None == -1

Users == {1, 2}

\* Minutes the worker's wake-ups may lie apart: time.sleep(60) plus the
\* duration of the tick.
Steps == {5, 15}

\* Instants at which the process is started.
StartClocks == {7 * 60 + 55, 23 * 60 + 25}

\* An instant two days after the first of them, at which the process still
\* runs.
LateClocks == {EvictAfterDays * MinutesPerDay + 7 * 60 + 55}

-----------------------------------------------------------------------------
(* Helpers over finite maps and sequences *)

Put(f, k, v) == [x \in DOMAIN f \cup {k} |-> IF x = k THEN v ELSE f[x]]

Restrict(f, S) == [x \in S |-> f[x]]

EmptyMap == [x \in {} |-> 0]

-----------------------------------------------------------------------------
(* Dates and times *)

DayOf(now) == now \div MinutesPerDay

TimeOfDay(now) == now % MinutesPerDay

\* t.split(':') of a time-list entry is modelled by the sequence of its
\* parts; hh, mm = ... needs exactly two, and datetime.replace rejects an
\* hour outside 0..23 or a minute outside 0..59.  None stands for the
\* exception that makes the loop skip the entry.
ParseTimeOfDay(t) ==
    IF Len(t) = 2 /\ t[1] \in 0..23 /\ t[2] \in 0..59
    THEN t[1] * 60 + t[2]
    ELSE None

\* local_now.replace(hour=hh, minute=mm, second=0, microsecond=0)
ScheduledLocal(now, tod) == DayOf(now) * MinutesPerDay + tod

\* scheduled_dt.strftime('%Y-%m-%d %H:%M')
TimeKey(dt) == <<DayOf(dt), TimeOfDay(dt) \div 60, TimeOfDay(dt) % 60>>

\* prefs.get('timezone') of a dict that has no such key.
NoZone == "<None>"

\* The zone names ZoneInfo accepts, of those considered.
KnownZones == {"UTC", "Africa/Nairobi"}

\* What a timezone column can hold: the known zones and a name ZoneInfo
\* rejects.
ZoneNames == KnownZones \cup {"Mars/Olympus"}

\* Minutes a zone's wall clock is ahead of UTC (neither zone has DST).
UtcOffset(zone) == IF zone = "Africa/Nairobi" THEN 3 * 60 ELSE 0

\* tz_name = (prefs.get('timezone') or 'UTC').strip() or 'UTC', then
\* ZoneInfo(tz_name), ZoneInfo('UTC') when that raises; lines 5351-5355.
ResolveZone(timezone) ==
    LET tz_name == IF timezone = NoZone \/ timezone = "" THEN "UTC"
                   ELSE timezone
    IN  IF tz_name \in KnownZones THEN tz_name ELSE "UTC"

-----------------------------------------------------------------------------
(* Rows *)

\* A row of medication_schedules.  The column times is described by
\* times_kind, what the driver hands over:
\*   "json_list"    a str, the JSON text of a list (what the endpoints
\*                  store for a list)
\*   "list"         a list
\*   "json_scalar"  a str, the JSON text of a string, number or object
\*   "text"         a str that is no JSON text
\*   "number"       a value that is neither str nor list
\*   "null"         NULL
\* and by times, the time entries the value spells out.
ScheduleRowWithColumn(id, user_id, active, start_date, end_date, times_kind, times) ==
    [id |-> id, user_id |-> user_id, active |-> active,
     start_date |-> start_date, end_date |-> end_date,
     times_kind |-> times_kind, times |-> times]

\* A row whose column times holds the JSON text of the list times.
ScheduleRow(id, user_id, active, start_date, end_date, times) ==
    ScheduleRowWithColumn(id, user_id, active, start_date, end_date,
                          "json_list", times)

\* Mutant of DecodeTimes: whatever the column holds is iterated.
DecodeTimesLenient(times_kind, times) == times

\* times = row.get('times') and its normalisation, lines 5358-5365:
\* json.loads of a str, [] when that raises, [] for what is no list.
DecodeTimes(times_kind, times) ==
    LET is_str == times_kind \in {"json_list", "json_scalar", "text"}
        \* after the first if: json.loads(times), [] when it raised
        loaded == IF times_kind = "text" THEN <<>> ELSE times
        loaded_is_list == IF is_str
                          THEN times_kind \in {"json_list", "text"}
                          ELSE times_kind = "list"
    IN  IF loaded_is_list THEN loaded ELSE <<>>

\* A row of medication_intake_log.  source is not a column: it records
\* which code path inserted the row ("patient": log_medication_intake,
\* "scheduler": medication_reminder_worker).
LedgerRow(schedule_id, user_id, scheduled_time, status, source) ==
    [schedule_id |-> schedule_id, user_id |-> user_id,
     scheduled_time |-> scheduled_time, status |-> status, source |-> source]

\* A row of notifications.  slot is not a column: it records the dose
\* instant the worker was handling when it called create_notification
\* (None for a notification that no tick created).
NotificationRow(user_id, type, title, schedule_id, slot) ==
    [user_id |-> user_id, type |-> type, title |-> title,
     schedule_id |-> schedule_id, slot |-> slot]

\* No row of notification_preferences for the user.
NoPrefsRow ==
    [exists |-> FALSE, medication_reminders |-> TRUE,
     health_alerts |-> TRUE, appointment_reminders |-> TRUE,
     wellness_tips |-> TRUE,
     email_notifications |-> TRUE, sms_notifications |-> FALSE,
     push_notifications |-> TRUE,
     quiet_hours_start |-> None, quiet_hours_end |-> None,
     timezone |-> "UTC"]

\* The dict get_notification_preferences returns: the stored row, or the
\* permissive defaults when there is none.  The SELECT of a stored row
\* does not name the timezone column, so the dict has no such key.
get_notification_preferences(table, user_id) ==
    IF table[user_id].exists
    THEN [table[user_id] EXCEPT !.timezone = NoZone]
    ELSE [exists |-> FALSE, medication_reminders |-> TRUE,
          health_alerts |-> TRUE, appointment_reminders |-> TRUE,
          wellness_tips |-> TRUE,
          email_notifications |-> TRUE, sms_notifications |-> FALSE,
          push_notifications |-> TRUE,
          quiet_hours_start |-> None, quiet_hours_end |-> None,
          timezone |-> "UTC"]

-----------------------------------------------------------------------------
(* Pure functions of the worker *)

\* Mutant of is_quiet_hours: no branch for a range that wraps past midnight.
IsQuietNoWrap(now, start_time, end_time) ==
    IF start_time = None \/ end_time = None
    THEN FALSE
    ELSE start_time <= TimeOfDay(now) /\ TimeOfDay(now) <= end_time

\* Mutant of is_quiet_hours: the same-day branch is taken for start <= end,
\* and the end of the range is excluded.
IsQuietHalfOpen(now, start_time, end_time) ==
    IF start_time = None \/ end_time = None
    THEN FALSE
    ELSE IF start_time <= end_time
         THEN start_time <= TimeOfDay(now) /\ TimeOfDay(now) < end_time
         ELSE TimeOfDay(now) >= start_time \/ TimeOfDay(now) < end_time

\* _is_quiet_hours, for bounds that are times of day (minutes after
\* midnight) or None.
is_quiet_hours(now, start_time, end_time) ==
    IF start_time = None \/ end_time = None
    THEN FALSE
    ELSE IF start_time < end_time
         THEN start_time <= TimeOfDay(now) /\ TimeOfDay(now) <= end_time
         ELSE TimeOfDay(now) >= start_time \/ TimeOfDay(now) <= end_time

\* Mutant of has_intake: the ledger is never consulted.
HasIntakeNever(rows, schedule_id, scheduled_dt) == FALSE

\* Mutant of has_intake: only the scheduler's own missed rows count, a
\* row the patient logged does not.
HasIntakeMissedOnly(rows, schedule_id, scheduled_dt) ==
    \E i \in DOMAIN rows :
        /\ rows[i].schedule_id = schedule_id
        /\ rows[i].scheduled_time = scheduled_dt
        /\ rows[i].status = "missed"

\* Mutant of has_intake: a missed row does not count as an entry.
HasIntakeExceptMissed(rows, schedule_id, scheduled_dt) ==
    \E i \in DOMAIN rows :
        /\ rows[i].schedule_id = schedule_id
        /\ rows[i].scheduled_time = scheduled_dt
        /\ rows[i].status # "missed"

\* SELECT id FROM medication_intake_log WHERE schedule_id = .. AND
\* scheduled_time = .. LIMIT 1, on the worker's own connection (it sees the
\* rows the tick has inserted itself).
has_intake(rows, schedule_id, scheduled_dt) ==
    \E i \in DOMAIN rows :
        /\ rows[i].schedule_id = schedule_id
        /\ rows[i].scheduled_time = scheduled_dt

\* Mutant of IsLoadable: the query selects on active alone.
IsLoadableActiveOnly(row, today) == row.active

\* The WHERE clause of the worker's schedule query, for UTC_DATE() = today.
IsLoadable(row, today) ==
    /\ row.active
    /\ (row.start_date = None \/ row.start_date <= today)
    /\ (row.end_date = None \/ row.end_date >= today)

\* Mutant of IsFuture: the future check is missing.
IsFutureNever(scheduled_local, now) == FALSE

\* if scheduled_local > local_now: continue
IsFuture(scheduled_local, now) == scheduled_local > now

\* Mutant of InInitialWindow: the initial window closes ten minutes early.
InInitialWindowShort(elapsed) == elapsed <= InitialWindowMin - 10

\* if elapsed <= 15 * 60
InInitialWindow(elapsed) == elapsed <= InitialWindowMin

\* Mutant of InRetryWindow: the follow-ups go on until the dose is missed.
InRetryWindowUntilMissed(elapsed) ==
    InitialWindowMin < elapsed /\ elapsed <= MissedAfterMin

\* Mutant of InRetryWindow: the follow-up window closes five minutes early.
InRetryWindowShort(elapsed) ==
    InitialWindowMin < elapsed /\ elapsed <= RetryWindowMin - 5

InRetryWindow(elapsed) == InitialWindowMin < elapsed /\ elapsed <= RetryWindowMin

\* Mutant of InMissedWindow: the dose counts as missed only after twice
\* the time.
InMissedWindowLate(elapsed) == elapsed > 2 * MissedAfterMin

\* Mutant of InMissedWindow: the dose counts as missed as soon as the retry
\* window is over.
InMissedWindowEarly(elapsed) == elapsed > RetryWindowMin

InMissedWindow(elapsed) == elapsed > MissedAfterMin

CacheKey(user_id, schedule_id, dt) == <<user_id, schedule_id, TimeKey(dt)>>

\* Mutant of should_send_med_reminder: the last send is not looked at.
ShouldSendAlways(cache, key, now) ==
    [granted |-> TRUE, cache |-> Put(cache, key, now)]

\* _should_send_med_reminder: the answer and the cache it leaves behind.
\* A refusal returns before the cache is touched; a grant stores now and
\* drops the entries older than two hours.
should_send_med_reminder(cache, key, now) ==
    IF key \in DOMAIN cache /\ now - cache[key] < ResendGuardMin
    THEN [granted |-> FALSE, cache |-> cache]
    ELSE LET marked == Put(cache, key, now)
         IN  [granted |-> TRUE,
              cache |-> Restrict(marked,
                  {k \in DOMAIN marked : ~(now - marked[k] > StaleAfterMin)})]

\* Mutant of RetryExhausted: the counter never ends the follow-ups.
RetryExhaustedNever(count) == FALSE

\* Mutant of RetryExhausted: one follow-up more.
RetryExhaustedAtThree(count) == count >= MaxRetryCount + 1

\* retry_val.get('count', 0) >= 2 ends the follow-ups
RetryExhausted(count) == count >= MaxRetryCount

\* Mutant of RetryVal: the stored counter is not read.
RetryValFresh(cache, key, now) == [count |-> 0, ts |-> now]

\* _med_retry_cache.get(retry_key, {"count": 0, "ts": now})
RetryVal(cache, key, now) ==
    IF key \in DOMAIN cache THEN cache[key] ELSE [count |-> 0, ts |-> now]

\* Mutant of create_notification: the INSERT is never committed.
CreateNotificationUncommitted(rows, user_id, type, title, schedule_id, slot) ==
    rows

\* create_notification, lines 5245-5252: the INSERT into notifications and
\* its commit.
create_notification(rows, user_id, type, title, schedule_id, slot) ==
    Append(rows, NotificationRow(user_id, type, title, schedule_id, slot))

-----------------------------------------------------------------------------
(* The channels behind create_notification, lines 5254-5270.               *)
(*                                                                         *)
(* A contact column is described by what the two resolvers look at:        *)
(*   at      it contains '@'                                               *)
(*   digits  how many digits it contains                                   *)
(* environ holds what the send functions test of os.environ:               *)
(*   ENABLE_EMAIL_API    ENABLE_EMAIL_API is '1' (or unset)                *)
(*   sendgrid_configured EMAIL_PROVIDER is sendgrid (or unset) and         *)
(*                       SENDGRID_API_KEY, SENDGRID_FROM are set           *)
(*   smtp_port_numeric   int(SMTP_PORT) succeeds (or SMTP_PORT is unset)   *)
(*   smtp_configured     SMTP_HOST, SMTP_USER, SMTP_PASSWORD are set       *)
(*   ENABLE_DARAJA_SMS   ENABLE_DARAJA_SMS is '1'                          *)
(*   daraja_configured   DARAJA_CONSUMER_KEY, DARAJA_CONSUMER_SECRET set   *)
(* net holds the answers of the services for one call: sendgrid, smtp,     *)
(* token, sms.                                                             *)
(***************************************************************************)

\* len(digits.replace('+', '')) >= 9
MinPhoneDigits == 9

\* get_user_email resolves an address
get_user_email(contact) == contact.at

\* get_user_phone resolves a number
get_user_phone(contact) == contact.digits >= MinPhoneDigits

\* Mutant of CategoryEnabled: no category toggle is looked at.
CategoryEnabledAlways(p, notif_type) == TRUE

\* Mutant of CategoryEnabled: only the type 'medication_reminder' is matched
\* to the medication toggle.
CategoryEnabledReminderOnly(p, notif_type) ==
    /\ notif_type = "medication_reminder" => p.medication_reminders
    /\ notif_type \in {"health", "health_alert"} => p.health_alerts
    /\ notif_type \in {"appointment", "appointment_reminder"}
          => p.appointment_reminders
    /\ notif_type \in {"wellness", "wellness_tip"} => p.wellness_tips

\* The four early returns of create_notification, lines 5255-5262: the
\* toggle of the type's category, when the type has one.
CategoryEnabled(p, notif_type) ==
    /\ notif_type \in {"medication", "medication_reminder"}
          => p.medication_reminders
    /\ notif_type \in {"health", "health_alert"} => p.health_alerts
    /\ notif_type \in {"appointment", "appointment_reminder"}
          => p.appointment_reminders
    /\ notif_type \in {"wellness", "wellness_tip"} => p.wellness_tips

\* send_email_api_notification: the requests it issues and its status.
send_email_api_notification(env, net) ==
    IF ~env.sendgrid_configured
    THEN [requests |-> <<>>, status |-> "unconfigured"]
    ELSE [requests |-> <<"sendgrid_post">>, status |-> net.sendgrid]

\* send_email_notification: the API when it is enabled, then SMTP.  The
\* port is converted before the configuration is tested and outside the
\* try block: a value int() rejects raises ValueError.
send_email_notification(env, net) ==
    LET api == IF env.ENABLE_EMAIL_API
               THEN send_email_api_notification(env, net)
               ELSE [requests |-> <<>>, status |-> "disabled"]
    IN  IF api.status = "accepted"
        THEN [called |-> TRUE, requests |-> api.requests, api |-> api.status,
              smtp |-> "none", result |-> "true"]
        ELSE IF ~env.smtp_port_numeric
        THEN [called |-> TRUE, requests |-> api.requests, api |-> api.status,
              smtp |-> "raised", result |-> "raised"]
        ELSE IF ~env.smtp_configured
        THEN [called |-> TRUE, requests |-> api.requests, api |-> api.status,
              smtp |-> "unconfigured", result |-> "false"]
        ELSE [called |-> TRUE,
              requests |-> Append(api.requests, "smtp_send"),
              api |-> api.status, smtp |-> net.smtp,
              result |-> IF net.smtp = "sent" THEN "true" ELSE "false"]

\* send_email_notification was not called
NoEmail ==
    [called |-> FALSE, requests |-> <<>>, api |-> "none", smtp |-> "none",
     result |-> "none"]

\* daraja_access_token: the requests it issues and its status; a token is
\* returned when the status is "issued".
daraja_access_token(env, net) ==
    IF ~env.daraja_configured
    THEN [requests |-> <<>>, status |-> "unconfigured"]
    ELSE [requests |-> <<"token_get">>, status |-> net.token]

\* Mutant of send_sms_notification: the token is not tested before the
\* send request.
SendSmsWithoutToken(env, net) ==
    IF ~env.ENABLE_DARAJA_SMS
    THEN [called |-> TRUE, requests |-> <<>>, token |-> "disabled",
          post |-> "none", result |-> "false"]
    ELSE LET tok == daraja_access_token(env, net)
         IN  [called |-> TRUE,
              requests |-> Append(tok.requests, "sms_post"),
              token |-> tok.status, post |-> net.sms,
              result |-> IF net.sms = "accepted" THEN "true" ELSE "false"]

\* send_sms_notification
send_sms_notification(env, net) ==
    IF ~env.ENABLE_DARAJA_SMS
    THEN [called |-> TRUE, requests |-> <<>>, token |-> "disabled",
          post |-> "none", result |-> "false"]
    ELSE LET tok == daraja_access_token(env, net)
         IN  IF tok.status # "issued"
             THEN [called |-> TRUE, requests |-> tok.requests,
                   token |-> tok.status, post |-> "none",
                   result |-> "false"]
             ELSE [called |-> TRUE,
                   requests |-> Append(tok.requests, "sms_post"),
                   token |-> tok.status, post |-> net.sms,
                   result |-> IF net.sms = "accepted" THEN "true"
                              ELSE "false"]

\* send_sms_notification was not called
NoSms ==
    [called |-> FALSE, requests |-> <<>>, token |-> "none", post |-> "none",
     result |-> "none"]

\* create_notification after its commit, lines 5254-5270: what it does
\* with the preferences p and the contact column.  An exception of the
\* email send leaves create_notification before the phone is resolved.
fan_out(p, contact, env, net, notif_type) ==
    LET email == IF get_user_email(contact) /\ p.email_notifications
                 THEN send_email_notification(env, net)
                 ELSE NoEmail
        sms == IF get_user_phone(contact) /\ p.sms_notifications
               THEN send_sms_notification(env, net)
               ELSE NoSms
    IN  IF ~CategoryEnabled(p, notif_type)
        THEN [email |-> NoEmail, sms |-> NoSms, raised |-> FALSE]
        ELSE IF email.result = "raised"
        THEN [email |-> email, sms |-> NoSms, raised |-> TRUE]
        ELSE [email |-> email, sms |-> sms, raised |-> FALSE]

\* No create_notification call has been observed.
\* caller tells a call made by POST /medications/remind ("remind") from the
\* others ("call"); http is the status of the last such request, 0 when
\* there was none.
NoOutbound ==
    [seq |-> 0, user_id |-> None, type |-> "none",
     email |-> NoEmail, sms |-> NoSms, raised |-> FALSE,
     caller |-> "none", http |-> 0]

-----------------------------------------------------------------------------
(* One tick of medication_reminder_worker.                                 *)
(*                                                                         *)
(* A tick threads a record st through its loops:                           *)
(*   st.ledger         medication_intake_log as the worker's connection    *)
(*                     sees it (committed rows plus its own inserts)       *)
(*   st.notifications  notifications (create_notification commits at once) *)
(*   st.reminder, st.retry, st.missed   the three caches                   *)
(***************************************************************************)

\* Mutant of HandleInitial: the cache is asked, and so marked, before quiet
\* hours are looked at.
HandleInitialMarkFirst(st, row, dt, now, quiet) ==
    LET key == CacheKey(row.user_id, row.id, dt)
        ask == should_send_med_reminder(st.reminder, key, now)
    IN  IF ~ask.granted
        THEN st
        ELSE IF quiet
        THEN [st EXCEPT !.reminder = ask.cache]
        ELSE [st EXCEPT
                !.reminder = ask.cache,
                !.notifications = create_notification(@, row.user_id,
                    "medication_reminder", "Medication Reminder", row.id, dt),
                !.retry = Put(@, key, [count |-> 1, ts |-> now])]

\* Initial window, lines 5389-5398.
HandleInitial(st, row, dt, now, quiet) ==
    LET key == CacheKey(row.user_id, row.id, dt)
        ask == should_send_med_reminder(st.reminder, key, now)
    IN  IF quiet
        THEN st
        ELSE IF ~ask.granted
        THEN st
        ELSE [st EXCEPT
                !.reminder = ask.cache,
                !.notifications = create_notification(@, row.user_id,
                    "medication_reminder", "Medication Reminder", row.id, dt),
                !.retry = Put(@, key, [count |-> 1, ts |-> now])]

\* Retry window, lines 5401-5415.
HandleRetry(st, row, dt, now, quiet) ==
    LET key == CacheKey(row.user_id, row.id, dt)
        retry_val == RetryVal(st.retry, key, now)
    IN  IF quiet
        THEN st
        ELSE IF RetryExhausted(retry_val.count)
        THEN st
        ELSE [st EXCEPT
                !.notifications = create_notification(@, row.user_id,
                    "medication_reminder", "Medication Reminder (Follow-up)",
                    row.id, dt),
                !.retry = Put(@, key,
                    [count |-> retry_val.count + 1, ts |-> now])]

\* Mutant of MissedAlertAllowed: the alert ignores quiet hours.
MissedAlertAlways(quiet) == TRUE

\* Mutant of MissedWriteAllowed: quiet hours skip the whole missed branch.
MissedWriteOutsideQuiet(quiet) == ~quiet

\* if not quiet: the missed-dose alert goes out
MissedAlertAllowed(quiet) == ~quiet

\* the INSERT of the missed row is not conditioned on quiet hours
MissedWriteAllowed(quiet) == TRUE

\* Missed, lines 5418-5433.
HandleMissed(st, row, dt, now, quiet) ==
    LET key == CacheKey(row.user_id, row.id, dt)
    IN  IF key \in DOMAIN st.missed
        THEN st
        ELSE [st EXCEPT
                !.ledger = IF MissedWriteAllowed(quiet)
                           THEN Append(@, LedgerRow(row.id, row.user_id, dt,
                                                    "missed", "scheduler"))
                           ELSE @,
                !.notifications =
                    IF MissedAlertAllowed(quiet)
                    THEN create_notification(@, row.user_id, "medication",
                                             "Missed Dose Alert", row.id, dt)
                    ELSE @,
                !.missed = Put(@, key, now)]

\* The body of "for t in times", lines 5370-5433.
\* offset is the UTC offset of the zone the row's user was resolved to:
\* local_now is now + offset on the wall clock of that zone, and
\* scheduled_dt = scheduled_local.astimezone(UTC) takes the offset off.
ProcessSlot(st, row, t, now, quiet, offset) ==
    LET tod == ParseTimeOfDay(t)
        local_now == now + offset
        scheduled_local == ScheduledLocal(local_now, tod)
        scheduled_dt == scheduled_local - offset
        elapsed == local_now - scheduled_local
    IN  IF tod = None
        THEN st
        ELSE IF IsFuture(scheduled_local, local_now)
        THEN st
        ELSE IF has_intake(st.ledger, row.id, scheduled_dt)
        THEN st
        ELSE IF InInitialWindow(elapsed)
        THEN HandleInitial(st, row, scheduled_dt, now, quiet)
        ELSE IF InRetryWindow(elapsed)
        THEN HandleRetry(st, row, scheduled_dt, now, quiet)
        ELSE IF InMissedWindow(elapsed)
        THEN HandleMissed(st, row, scheduled_dt, now, quiet)
        ELSE st

RECURSIVE ProcessTimesStopAtMalformed(_, _, _, _, _, _)
\* Mutant of ProcessTimes: an entry that is no time of day ends the loop
\* over the list.
ProcessTimesStopAtMalformed(st, row, i, now, quiet, offset) ==
    IF i > Len(row.times)
    THEN st
    ELSE IF ParseTimeOfDay(row.times[i]) = None
    THEN st
    ELSE ProcessTimesStopAtMalformed(
            ProcessSlot(st, row, row.times[i], now, quiet, offset),
            row, i + 1, now, quiet, offset)

RECURSIVE ProcessTimes(_, _, _, _, _, _)
\* for t in times, from entry i on
ProcessTimes(st, row, i, now, quiet, offset) ==
    IF i > Len(row.times)
    THEN st
    ELSE ProcessTimes(ProcessSlot(st, row, row.times[i], now, quiet, offset),
                      row, i + 1, now, quiet, offset)

\* The body of "for row in rows", lines 5346-5433.
ProcessRow(st, row, now, table) ==
    LET p == get_notification_preferences(table, row.user_id)
        offset == UtcOffset(ResolveZone(p.timezone))
        quiet == is_quiet_hours(now + offset,
                                p.quiet_hours_start, p.quiet_hours_end)
        decoded == [row EXCEPT !.times = DecodeTimes(row.times_kind, @)]
    IN  ProcessTimes(st, decoded, 1, now, quiet, offset)

RECURSIVE ProcessRows(_, _, _, _, _)
\* for row in rows, from row j on
ProcessRows(st, rows, j, now, table) ==
    IF j > Len(rows)
    THEN st
    ELSE ProcessRows(
            IF IsLoadable(rows[j], DayOf(now))
            THEN ProcessRow(st, rows[j], now, table)
            ELSE st,
            rows, j + 1, now, table)

\* cutoff = now - timedelta(days=2)
Cutoff(now) == now - EvictAfterDays * MinutesPerDay

\* The sweep at the end of the tick, lines 5439-5446.
SweepRetry(cache, now) ==
    Restrict(cache, {k \in DOMAIN cache : ~(cache[k].ts < Cutoff(now))})

SweepMissed(cache, now) ==
    Restrict(cache, {k \in DOMAIN cache : ~(cache[k] < Cutoff(now))})

\* The record a tick starts from.
TickStart ==
    [ledger |-> ledger, notifications |-> notifications,
     reminder |-> reminder_cache, retry |-> retry_cache,
     missed |-> missed_cache]

\* The state a tick at instant now ends in.
TickResult(now) == ProcessRows(TickStart, schedules, 1, now, prefs)

-----------------------------------------------------------------------------
(* One tick in which create_notification raises.                           *)
(*                                                                         *)
(* The whole tick is inside one try block (lines 5326-5448): the first     *)
(* exception leaves both loops, skips db.commit() and the sweep, and is    *)
(* swallowed by "except Exception: pass".  faulty is the set of users for  *)
(* whom create_notification raises after its own commit (a failing query   *)
(* of get_notification_preferences or get_user_email, int(SMTP_PORT) in    *)
(* send_email_notification).  The tick threads fs = [st, raised], raised   *)
(* being the id of the schedule at which the exception left the loops.     *)
(***************************************************************************)

\* One slot.  create_notification has committed its row when it raises;
\* the statements after the call (the retry counter, the missed latch) are
\* not reached, those before it (the reminder mark, the INSERT of the
\* missed row on the worker's connection) are.
ProcessSlotOrRaise(fs, row, t, now, quiet, offset, faulty) ==
    IF fs.raised # None
    THEN fs
    ELSE LET done == ProcessSlot(fs.st, row, t, now, quiet, offset)
         IN  IF done.notifications # fs.st.notifications
                    /\ row.user_id \in faulty
             THEN [st |-> [fs.st EXCEPT
                              !.notifications = done.notifications,
                              !.reminder = done.reminder,
                              !.ledger = done.ledger],
                   raised |-> row.id]
             ELSE [st |-> done, raised |-> None]

RECURSIVE ProcessTimesOrRaise(_, _, _, _, _, _, _)
\* for t in times, from entry i on
ProcessTimesOrRaise(fs, row, i, now, quiet, offset, faulty) ==
    IF i > Len(row.times)
    THEN fs
    ELSE ProcessTimesOrRaise(
            ProcessSlotOrRaise(fs, row, row.times[i], now, quiet, offset,
                               faulty),
            row, i + 1, now, quiet, offset, faulty)

\* The body of "for row in rows".
ProcessRowOrRaise(fs, row, now, table, faulty) ==
    LET p == get_notification_preferences(table, row.user_id)
        offset == UtcOffset(ResolveZone(p.timezone))
        quiet == is_quiet_hours(now + offset,
                                p.quiet_hours_start, p.quiet_hours_end)
        decoded == [row EXCEPT !.times = DecodeTimes(row.times_kind, @)]
    IN  ProcessTimesOrRaise(fs, decoded, 1, now, quiet, offset, faulty)

RECURSIVE ProcessRowsOrRaise(_, _, _, _, _, _)
\* for row in rows, from row j on
ProcessRowsOrRaise(fs, rows, j, now, table, faulty) ==
    IF j > Len(rows)
    THEN fs
    ELSE ProcessRowsOrRaise(
            IF IsLoadable(rows[j], DayOf(now)) /\ fs.raised = None
            THEN ProcessRowOrRaise(fs, rows[j], now, table, faulty)
            ELSE fs,
            rows, j + 1, now, table, faulty)

\* Mutant of LoopContinues: the exception is not caught and ends the thread.
LoopStopsOnError(raised) == raised = None

\* except Exception: pass, then time.sleep(60): the loop goes on whatever
\* the tick raised.
LoopContinues(raised) == TRUE

-----------------------------------------------------------------------------
(* Startup: start_medication_reminder_worker and the __main__ block.       *)
(*                                                                         *)
(* A process that runs __main__ is recorded with the two environment       *)
(* variables the start routine reads, the process that spawned it (0 for   *)
(* the one started from outside), whether it still runs and whether its    *)
(* start routine started the worker thread (a daemon thread: it lives as   *)
(* long as its process).                                                   *)
(***************************************************************************)

\* os.environ.get(name) of a variable that is not set
Unset == "<unset>"

\* What ENABLE_MED_REMINDERS and WERKZEUG_RUN_MAIN can hold.
EnvValues == {Unset, "0", "1", "true"}

Process(ppid, enable, run_main, worker) ==
    [ppid |-> ppid, ENABLE_MED_REMINDERS |-> enable,
     WERKZEUG_RUN_MAIN |-> run_main, alive |-> TRUE, worker |-> worker]

\* start_medication_reminder_worker: TRUE when it starts the thread.
start_medication_reminder_worker(enable, run_main) ==
    IF (IF enable = Unset THEN "0" ELSE enable) # "1"
    THEN FALSE
    ELSE IF run_main \notin {Unset, "true"}
    THEN FALSE
    ELSE TRUE

\* The running processes whose worker thread was started.
LiveWorkers(procs) ==
    {i \in DOMAIN procs : procs[i].alive /\ procs[i].worker}

-----------------------------------------------------------------------------
(* Actions *)

\* The instants explored: Horizon minutes from each start, up to
\* NextDayMinutes into day 1, and Horizon minutes two days later.
InExploredTime(from, now) ==
    \/ /\ \E s \in StartClocks : s <= from /\ now <= s + Horizon
       /\ now <= MinutesPerDay + NextDayMinutes
    \/ \E s \in LateClocks : s <= from /\ now <= s + Horizon

\* The worker wakes up d minutes after its last wake-up and runs one tick.
medication_reminder_worker(d) ==
    /\ InExploredTime(clock, clock + d)
    /\ LET now == clock + d
           st == TickResult(now)
       IN  /\ clock' = now
           /\ ledger' = st.ledger
           /\ notifications' = st.notifications
           /\ reminder_cache' = st.reminder
           /\ retry_cache' = SweepRetry(st.retry, now)
           /\ missed_cache' = SweepMissed(st.missed, now)
    /\ UNCHANGED <<schedules, prefs, restarts, life_mark>>
    /\ UNCHANGED <<channel_vars, thread_vars, quiet_call, guard_vars>>

\* POST /medications/<schedule_id>/intake.  body_time is the request's
\* scheduled_time, None when the body has none: the handler then stores
\* datetime.utcnow().
log_medication_intake(uid, schedule_id, body_time, status) ==
    /\ Cardinality({i \in DOMAIN ledger : ledger[i].source = "patient"})
          < MaxIntakeLogs
    /\ LET scheduled_time == IF body_time = None THEN clock ELSE body_time
       IN  ledger' = Append(ledger, LedgerRow(schedule_id, uid, scheduled_time,
                                              status, "patient"))
    /\ UNCHANGED <<clock, schedules, prefs, notifications,
                   reminder_cache, retry_cache, missed_cache, restarts,
                   life_mark>>
    /\ UNCHANGED <<channel_vars, thread_vars, quiet_call, guard_vars>>

\* POST /notifications/preferences with quiet hours and possibly a
\* timezone (NoZone: none) in the body: the row is inserted when the user
\* has none, otherwise the fields that are not None are updated.
notification_preferences(uid, quiet_hours_start, quiet_hours_end, timezone) ==
    /\ prefs' = [prefs EXCEPT ![uid] =
            IF ~@.exists
            THEN [exists |-> TRUE, medication_reminders |-> TRUE,
                  health_alerts |-> TRUE, appointment_reminders |-> TRUE,
                  wellness_tips |-> TRUE,
                  email_notifications |-> TRUE, sms_notifications |-> FALSE,
                  push_notifications |-> TRUE,
                  quiet_hours_start |-> quiet_hours_start,
                  quiet_hours_end |-> quiet_hours_end,
                  timezone |-> IF timezone = NoZone \/ timezone = ""
                               THEN "UTC" ELSE timezone]
            ELSE [@ EXCEPT
                    !.timezone = IF timezone # NoZone THEN timezone ELSE @,
                    !.quiet_hours_start =
                        IF quiet_hours_start # None
                        THEN quiet_hours_start ELSE @,
                    !.quiet_hours_end =
                        IF quiet_hours_end # None
                        THEN quiet_hours_end ELSE @]]
    /\ prefs' # prefs
    /\ UNCHANGED <<clock, schedules, ledger, notifications,
                   reminder_cache, retry_cache, missed_cache, restarts,
                   life_mark>>
    /\ UNCHANGED <<channel_vars, thread_vars, quiet_call, guard_vars>>

\* The process is restarted: the module-level caches start empty again,
\* the tables keep their committed rows.
Restart ==
    /\ restarts < MaxRestarts
    /\ restarts' = restarts + 1
    /\ reminder_cache' = EmptyMap
    /\ retry_cache' = EmptyMap
    /\ missed_cache' = EmptyMap
    /\ life_mark' = Len(notifications)
    /\ UNCHANGED <<clock, schedules, prefs, ledger, notifications>>
    /\ UNCHANGED <<channel_vars, thread_vars, quiet_call, guard_vars>>

\* One iteration of the worker's loop, d minutes after the last one, in
\* which create_notification raises for the users in faulty.  After an
\* exception the worker's connection is dropped with its uncommitted
\* INSERTs; the rows create_notification committed and the cache entries
\* written before the exception stay.
worker_iteration(d, faulty) ==
    /\ worker_alive
    /\ \E s \in StartClocks : s <= clock /\ clock + d <= s + Horizon
    /\ clock + d <= MinutesPerDay + NextDayMinutes
    /\ LET now == clock + d
           fs == ProcessRowsOrRaise([st |-> TickStart, raised |-> None],
                                    schedules, 1, now, prefs, faulty)
       IN  /\ clock' = now
           /\ notifications' = fs.st.notifications
           /\ reminder_cache' = fs.st.reminder
           /\ ledger' = IF fs.raised = None THEN fs.st.ledger ELSE ledger
           /\ retry_cache' = IF fs.raised = None
                             THEN SweepRetry(fs.st.retry, now)
                             ELSE fs.st.retry
           /\ missed_cache' = IF fs.raised = None
                              THEN SweepMissed(fs.st.missed, now)
                              ELSE fs.st.missed
           /\ tick_error' = fs.raised
           /\ worker_alive' = LoopContinues(fs.raised)
    /\ UNCHANGED <<schedules, prefs, restarts, life_mark>>
    /\ UNCHANGED <<channel_vars, processes, quiet_call, guard_vars>>

\* A caller (the worker, POST /medications/remind, the direct-message
\* handler) calls create_notification(user_id, notif_type, ...): the row
\* is inserted and committed, then the channels are served.
create_notification_call(user_id, notif_type, net) ==
    /\ outbound.seq < MaxDispatches
    /\ notifications' = create_notification(notifications, user_id,
                            notif_type, "Medication Reminder", None, None)
    /\ outbound' =
          LET out == fan_out(get_notification_preferences(prefs, user_id),
                             contacts[user_id], environ, net, notif_type)
          IN  [seq |-> outbound.seq + 1, user_id |-> user_id,
               type |-> notif_type, email |-> out.email, sms |-> out.sms,
               raised |-> out.raised,
               caller |-> "call", http |-> outbound.http]
    /\ UNCHANGED <<clock, schedules, prefs, ledger,
                   reminder_cache, retry_cache, missed_cache, restarts,
                   life_mark, contacts, environ>>
    /\ UNCHANGED <<thread_vars, quiet_call, guard_vars>>

\* POST /medications/remind of user uid; schedule_id is the body's
\* schedule_id, None when it has none.  A schedule_id that is no schedule
\* of the user is answered 404.  Otherwise create_notification is called
\* with type 'medication_reminder' and the schedule_id as data; the answer
\* is 200, or 500 when create_notification raised.  The handler does not
\* touch the deduplication caches.
send_medication_reminder(uid, schedule_id, net) ==
    /\ outbound.seq < MaxDispatches
    /\ IF /\ schedule_id # None
          /\ ~\E j \in DOMAIN schedules :
                 schedules[j].id = schedule_id /\ schedules[j].user_id = uid
       THEN /\ notifications' = notifications
            /\ outbound' = [outbound EXCEPT !.http = 404]
       ELSE /\ notifications' = create_notification(notifications, uid,
                                    "medication_reminder",
                                    "Medication Reminder", schedule_id, None)
            /\ outbound' =
                  LET out == fan_out(get_notification_preferences(prefs, uid),
                                     contacts[uid], environ, net,
                                     "medication_reminder")
                  IN  [seq |-> outbound.seq + 1, user_id |-> uid,
                       type |-> "medication_reminder",
                       email |-> out.email, sms |-> out.sms,
                       raised |-> out.raised,
                       caller |-> "remind",
                       http |-> IF out.raised THEN 500 ELSE 200]
    /\ UNCHANGED <<clock, schedules, prefs, ledger,
                   reminder_cache, retry_cache, missed_cache, restarts,
                   life_mark, contacts, environ>>
    /\ UNCHANGED <<thread_vars, quiet_call, guard_vars>>

\* _is_quiet_hours(now, start_time, end_time) is applied to the arguments
\* in quiet_call.
apply_is_quiet_hours ==
    /\ ~quiet_call.done
    /\ quiet_call' = [quiet_call EXCEPT
            !.done = TRUE,
            !.result = is_quiet_hours(quiet_call.now, quiet_call.start_time,
                                      quiet_call.end_time)]
    /\ UNCHANGED <<scheduler_vars, channel_vars, thread_vars, guard_vars>>

-----------------------------------------------------------------------------
(* Threads inside _should_send_med_reminder *)

\* The threads that call _should_send_med_reminder, the keys they ask for,
\* the time that passes between two of their steps, and the bounds of the
\* exploration.
Threads == {1, 2}
GuardKeys == {CacheKey(1, 1, 8 * 60), CacheKey(2, 2, 8 * 60)}
GuardSteps == {25, 50}
GuardHorizon == 50
MaxGuardCalls == 2
GuardStart == 8 * 60

\* A thread that is not inside the function.
IdleCaller ==
    [pc |-> "idle", key |-> <<>>, now |-> None, last_sent |-> None,
     granted |-> FALSE, seen |-> EmptyMap, calls |-> 0]

IdleGuard ==
    /\ med_reminder_lock = None
    /\ callers = [t \in Threads |-> IdleCaller]

\* Mutant of CanAcquire: the lock excludes nobody.
CanAcquireAlways(lock) == TRUE

\* threading.Lock: __enter__ returns when no thread holds the lock.
CanAcquire(lock) == lock = None

\* cache_key = (user_id, schedule_id, time_key); now = datetime.utcnow():
\* both before the lock is asked for.
enter_should_send(t, key) ==
    /\ callers[t].pc \in {"idle", "returned"}
    /\ callers[t].calls < MaxGuardCalls
    /\ callers' = [callers EXCEPT ![t] =
            [pc |-> "lock", key |-> key, now |-> clock, last_sent |-> None,
             granted |-> FALSE, seen |-> EmptyMap, calls |-> @.calls + 1]]
    /\ UNCHANGED <<scheduler_vars, channel_vars, thread_vars, quiet_call,
                   med_reminder_lock>>

\* with _med_reminder_lock: the thread waits until the lock is free.  seen
\* is a history field: the cache as it was when the lock was taken.
acquire_lock(t) ==
    /\ callers[t].pc = "lock"
    /\ CanAcquire(med_reminder_lock)
    /\ med_reminder_lock' = t
    /\ callers' = [callers EXCEPT ![t].pc = "get",
                                  ![t].seen = reminder_cache]
    /\ UNCHANGED <<scheduler_vars, channel_vars, thread_vars, quiet_call>>

\* last_sent = _med_reminder_cache.get(cache_key)
read_last_sent(t) ==
    /\ callers[t].pc = "get"
    /\ callers' = [callers EXCEPT
            ![t].pc = "compare",
            ![t].last_sent = IF callers[t].key \in DOMAIN reminder_cache
                             THEN reminder_cache[callers[t].key]
                             ELSE None]
    /\ UNCHANGED <<scheduler_vars, channel_vars, thread_vars, quiet_call,
                   med_reminder_lock>>

\* if last_sent and (now - last_sent).total_seconds() < 60 * 50:
\*     return False          (leaving the with block releases the lock)
compare_last_sent(t) ==
    /\ callers[t].pc = "compare"
    /\ IF /\ callers[t].last_sent # None
          /\ callers[t].now - callers[t].last_sent < ResendGuardMin
       THEN /\ callers' = [callers EXCEPT ![t].pc = "returned",
                                          ![t].granted = FALSE]
            /\ med_reminder_lock' = None
       ELSE /\ callers' = [callers EXCEPT ![t].pc = "set"]
            /\ UNCHANGED med_reminder_lock
    /\ UNCHANGED <<scheduler_vars, channel_vars, thread_vars, quiet_call>>

\* _med_reminder_cache[cache_key] = now
store_mark(t) ==
    /\ callers[t].pc = "set"
    /\ reminder_cache' = Put(reminder_cache, callers[t].key, callers[t].now)
    /\ callers' = [callers EXCEPT ![t].pc = "cleanup"]
    /\ UNCHANGED <<clock, schedules, prefs, ledger, notifications,
                   retry_cache, missed_cache, restarts, life_mark,
                   channel_vars, thread_vars, quiet_call, med_reminder_lock>>

\* stale_keys = [...]; for k in stale_keys: _med_reminder_cache.pop(k, None)
drop_stale_keys(t) ==
    /\ callers[t].pc = "cleanup"
    /\ reminder_cache' = Restrict(reminder_cache,
            {k \in DOMAIN reminder_cache :
                ~(callers[t].now - reminder_cache[k] > StaleAfterMin)})
    /\ callers' = [callers EXCEPT ![t].pc = "release"]
    /\ UNCHANGED <<clock, schedules, prefs, ledger, notifications,
                   retry_cache, missed_cache, restarts, life_mark,
                   channel_vars, thread_vars, quiet_call, med_reminder_lock>>

\* The with block ends, the lock is released; return True.
release_lock(t) ==
    /\ callers[t].pc = "release"
    /\ med_reminder_lock' = None
    /\ callers' = [callers EXCEPT ![t].pc = "returned",
                                  ![t].granted = TRUE]
    /\ UNCHANGED <<scheduler_vars, channel_vars, thread_vars, quiet_call>>

\* Time passes between two steps of the threads.
time_passes(d) ==
    /\ clock + d <= GuardStart + GuardHorizon
    /\ clock' = clock + d
    /\ UNCHANGED <<schedules, prefs, ledger, notifications, reminder_cache,
                   retry_cache, missed_cache, restarts, life_mark,
                   channel_vars, thread_vars, quiet_call, guard_vars>>

-----------------------------------------------------------------------------
(* Startup actions *)

\* python app.py is started from outside with the given environment:
\* __main__ calls start_medication_reminder_worker(), then app.run().
main(enable, run_main) ==
    /\ processes = <<>>
    /\ processes' = <<Process(0, enable, run_main,
                              start_medication_reminder_worker(enable, run_main))>>
    /\ worker_alive' = (LiveWorkers(processes') # {})
    /\ UNCHANGED <<scheduler_vars, channel_vars, tick_error, quiet_call, guard_vars>>

\* A reloader or supervisor running in process i executes the program
\* again as its child (one child at a time).  The child inherits the
\* environment with WERKZEUG_RUN_MAIN=true, as the Werkzeug reloader sets
\* it, and runs __main__ in its turn.
reloader_child(i) ==
    /\ Len(processes) < MaxProcesses
    /\ i \in DOMAIN processes
    /\ processes[i].alive
    /\ processes[i].ppid = 0
    /\ \A k \in DOMAIN processes : processes[k].ppid = i => ~processes[k].alive
    /\ LET enable == processes[i].ENABLE_MED_REMINDERS
       IN  processes' = Append(processes,
               Process(i, enable, "true",
                       start_medication_reminder_worker(enable, "true")))
    /\ worker_alive' = (LiveWorkers(processes') # {})
    /\ UNCHANGED <<scheduler_vars, channel_vars, tick_error, quiet_call, guard_vars>>

\* Process i ends (a reload stops the child, a stop of the parent takes
\* its child along); its daemon thread ends with it.
process_exit(i) ==
    /\ i \in DOMAIN processes
    /\ processes[i].alive
    /\ processes' = [k \in DOMAIN processes |->
                        IF k = i \/ processes[k].ppid = i
                        THEN [processes[k] EXCEPT !.alive = FALSE]
                        ELSE processes[k]]
    /\ worker_alive' = (LiveWorkers(processes') # {})
    /\ UNCHANGED <<scheduler_vars, channel_vars, tick_error, quiet_call, guard_vars>>

-----------------------------------------------------------------------------
(* Inputs *)

\* The schedule the patients have stored: two doses a day, the first one
\* listed twice, and an entry that is not a time of day.
TheSchedules ==
    << ScheduleRow(1, 1, TRUE, None, None,
                   << <<8, 0>>, <<8, 0, 0>>, <<8, 0>>, <<23, 30>> >>) >>

SlotTimes == {8 * 60, 23 * 60 + 30}

\* Bodies of the intake requests, (scheduled_time, status): a dose of the
\* current day taken, the morning dose skipped, and an instant that is no
\* dose of the schedule (08:07, as a request sent at that time without
\* scheduled_time stores).
IntakeRequests ==
    {<<ScheduledLocal(clock, tod), "taken">> : tod \in SlotTimes}
        \cup {<<ScheduledLocal(clock, 8 * 60), "skipped">>,
              <<ScheduledLocal(clock, 8 * 60 + 7), "taken">>}

\* quiet hours a patient configures: (start, end)
QuietChoices ==
    { <<7 * 60 + 50, 8 * 60 + 20>>,
      <<22 * 60, 6 * 60>> }

\* The contact columns considered: empty, an address, a number, a number
\* that is too short, an address that contains a number.
ContactChoices ==
    { [at |-> FALSE, digits |-> 0],
      [at |-> TRUE, digits |-> 0],
      [at |-> FALSE, digits |-> 12],
      [at |-> FALSE, digits |-> 8],
      [at |-> TRUE, digits |-> 10] }

\* Every combination of what the send functions test of os.environ.
Environs ==
    [ENABLE_EMAIL_API : BOOLEAN, sendgrid_configured : BOOLEAN,
     smtp_port_numeric : BOOLEAN, smtp_configured : BOOLEAN,
     ENABLE_DARAJA_SMS : BOOLEAN, daraja_configured : BOOLEAN]

\* os.environ with none of the variables set: the defaults of the
\* os.environ.get calls.
UnsetEnviron ==
    [ENABLE_EMAIL_API |-> TRUE, sendgrid_configured |-> FALSE,
     smtp_port_numeric |-> TRUE, smtp_configured |-> FALSE,
     ENABLE_DARAJA_SMS |-> FALSE, daraja_configured |-> FALSE]

\* The answers of the services for one call.  A service the environment
\* does not reach gives none.
\*   sendgrid  status 200/202, another status, an exception
\*   smtp      the message is accepted, an exception
\*   token     200 with a token, 200 without one, another status, an
\*             exception
\*   sms       status 200/201/202, another status, an exception
NetOutcomes(env) ==
    [sendgrid : IF env.ENABLE_EMAIL_API /\ env.sendgrid_configured
                THEN {"accepted", "rejected", "error"} ELSE {"unused"},
     smtp : IF env.smtp_port_numeric /\ env.smtp_configured
            THEN {"sent", "error"} ELSE {"unused"},
     token : IF env.ENABLE_DARAJA_SMS /\ env.daraja_configured
             THEN {"issued", "empty", "refused", "error"} ELSE {"unused"},
     sms : IF env.ENABLE_DARAJA_SMS /\ env.daraja_configured
           THEN {"accepted", "rejected", "error"} ELSE {"unused"}]

\* The types create_notification is called with, one per category met and
\* one without a category.
NotifTypes ==
    {"medication_reminder", "medication", "appointment_reminder",
     "direct_message"}

\* A stored row of notification_preferences with the given toggles.
PrefsRow(medication, appointment, email, sms) ==
    [exists |-> TRUE, medication_reminders |-> medication,
     health_alerts |-> TRUE, appointment_reminders |-> appointment,
     wellness_tips |-> TRUE,
     email_notifications |-> email, sms_notifications |-> sms,
     push_notifications |-> TRUE,
     quiet_hours_start |-> None, quiet_hours_end |-> None,
     timezone |-> "UTC"]

\* What notification_preferences may hold for a user: no row, or a row
\* with the toggles the endpoint stored.
PrefsChoices ==
    {NoPrefsRow}
        \cup {PrefsRow(m, TRUE, e, s) : m \in BOOLEAN, e \in BOOLEAN,
                                        s \in BOOLEAN}
        \cup {PrefsRow(TRUE, FALSE, TRUE, TRUE)}

\* The schedules of two patients, in the order the worker's query returns
\* them.
TwoUserSchedules ==
    << ScheduleRow(1, 1, TRUE, None, None, << <<8, 0>>, <<23, 30>> >>),
       ScheduleRow(2, 2, TRUE, None, None, << <<8, 0>>, <<23, 30>> >>) >>

\* The users for whom create_notification raises during one iteration.
FaultChoices == {{}, {1}, {2}}

\* Times of day and quiet-hours bounds _is_quiet_hours is applied to.
QuietNows ==
    {d * MinutesPerDay + t :
        d \in 0..1,
        t \in {0, 2 * 60, 6 * 60, 12 * 60, 22 * 60, 23 * 60, 23 * 60 + 59}}

QuietBounds == {None, 0, 6 * 60, 12 * 60, 22 * 60}

\* No application of _is_quiet_hours.
NoQuietCall ==
    [now |-> None, start_time |-> None, end_time |-> None,
     done |-> FALSE, result |-> FALSE]

\* The tables and caches when the process has started.
InitScheduler ==
    /\ clock \in StartClocks
    /\ schedules = TheSchedules
    /\ prefs = [u \in Users |-> NoPrefsRow]
    /\ ledger = <<>>
    /\ notifications = <<>>
    /\ reminder_cache = EmptyMap
    /\ retry_cache = EmptyMap
    /\ missed_cache = EmptyMap
    /\ restarts = 0
    /\ life_mark = 0

\* No channel is configured and no call has been observed.
IdleChannels ==
    /\ contacts = [u \in Users |-> [at |-> FALSE, digits |-> 0]]
    /\ environ = UnsetEnviron
    /\ outbound = NoOutbound

\* The worker thread runs and has caught nothing.
IdleThread ==
    /\ tick_error = None
    /\ worker_alive = TRUE
    /\ processes = <<Process(0, "1", Unset, TRUE)>>

Init ==
    /\ InitScheduler
    /\ IdleChannels
    /\ IdleThread
    /\ quiet_call = NoQuietCall
    /\ IdleGuard

Next ==
    \/ \E d \in Steps : medication_reminder_worker(d)
    \/ \E sid \in {1}, req \in IntakeRequests :
           log_medication_intake(1, sid, req[1], req[2])
    \/ \E q \in QuietChoices : notification_preferences(1, q[1], q[2], NoZone)
    \/ Restart

Spec == Init /\ [][Next]_vars

\* The dispatcher on its own: create_notification is called for user 1
\* under every environment, contact column and preference row.
InitDispatch ==
    /\ clock = 7 * 60 + 55
    /\ schedules = TheSchedules
    /\ prefs \in [Users -> PrefsChoices]
    /\ prefs[2] = NoPrefsRow
    /\ ledger = <<>>
    /\ notifications = <<>>
    /\ reminder_cache = EmptyMap
    /\ retry_cache = EmptyMap
    /\ missed_cache = EmptyMap
    /\ restarts = 0
    /\ life_mark = 0
    /\ contacts \in [Users -> ContactChoices]
    /\ contacts[2] = [at |-> FALSE, digits |-> 0]
    /\ environ \in Environs
    /\ outbound = NoOutbound
    /\ IdleThread
    /\ quiet_call = NoQuietCall
    /\ IdleGuard

NextDispatch ==
    \E notif_type \in NotifTypes, net \in NetOutcomes(environ) :
        create_notification_call(1, notif_type, net)

SpecDispatch == InitDispatch /\ [][NextDispatch]_vars

\* The schedule ids a request body names: none, the user's schedule, and
\* an id that is no schedule of the user.
RemindSchedules == {None, 1, 2}

\* Reminders of one user by both routes: the worker's call of
\* create_notification and POST /medications/remind.
NextRemind ==
    \/ \E net \in NetOutcomes(environ) :
           create_notification_call(1, "medication_reminder", net)
    \/ \E sid \in RemindSchedules, net \in NetOutcomes(environ) :
           send_medication_reminder(1, sid, net)

SpecRemind == InitDispatch /\ [][NextRemind]_vars

\* The worker's loop with exceptions, over the schedules of two patients.
InitFault ==
    /\ clock \in StartClocks
    /\ schedules = TwoUserSchedules
    /\ prefs = [u \in Users |-> NoPrefsRow]
    /\ ledger = <<>>
    /\ notifications = <<>>
    /\ reminder_cache = EmptyMap
    /\ retry_cache = EmptyMap
    /\ missed_cache = EmptyMap
    /\ restarts = 0
    /\ life_mark = 0
    /\ IdleChannels
    /\ IdleThread
    /\ quiet_call = NoQuietCall
    /\ IdleGuard

NextFault ==
    \E d \in Steps, faulty \in FaultChoices : worker_iteration(d, faulty)

SpecFault == InitFault /\ [][NextFault]_vars

\* _is_quiet_hours on its own, applied to every argument triple.
InitQuiet ==
    /\ InitScheduler
    /\ IdleChannels
    /\ IdleThread
    /\ quiet_call \in [now : QuietNows, start_time : QuietBounds,
                        end_time : QuietBounds, done : {FALSE},
                        result : {FALSE}]
    /\ IdleGuard

NextQuiet == apply_is_quiet_hours

SpecQuiet == InitQuiet /\ [][NextQuiet]_vars

\* Two threads in _should_send_med_reminder.  The cache starts empty, with
\* a mark of ten minutes ago for the first key, or with a mark of more than
\* two hours ago for the second.
GuardCaches ==
    {EmptyMap,
     Put(EmptyMap, CacheKey(1, 1, 8 * 60), GuardStart - 10),
     Put(EmptyMap, CacheKey(2, 2, 8 * 60), GuardStart - StaleAfterMin - 5)}

InitGuard ==
    /\ clock = GuardStart
    /\ schedules = TheSchedules
    /\ prefs = [u \in Users |-> NoPrefsRow]
    /\ ledger = <<>>
    /\ notifications = <<>>
    /\ reminder_cache \in GuardCaches
    /\ retry_cache = EmptyMap
    /\ missed_cache = EmptyMap
    /\ restarts = 0
    /\ life_mark = 0
    /\ IdleChannels
    /\ IdleThread
    /\ quiet_call = NoQuietCall
    /\ IdleGuard

NextGuard ==
    \/ \E t \in Threads, key \in GuardKeys : enter_should_send(t, key)
    \/ \E t \in Threads : acquire_lock(t)
    \/ \E t \in Threads : read_last_sent(t)
    \/ \E t \in Threads : compare_last_sent(t)
    \/ \E t \in Threads : store_mark(t)
    \/ \E t \in Threads : drop_stale_keys(t)
    \/ \E t \in Threads : release_lock(t)
    \/ \E d \in GuardSteps : time_passes(d)

SpecGuard == InitGuard /\ [][NextGuard]_vars

-----------------------------------------------------------------------------
(* The start of the deployment *)

\* Nothing runs yet.
InitStartup ==
    /\ InitScheduler
    /\ IdleChannels
    /\ tick_error = None
    /\ worker_alive = FALSE
    /\ processes = <<>>
    /\ quiet_call = NoQuietCall
    /\ IdleGuard

NextStartup ==
    \/ \E enable \in EnvValues, run_main \in EnvValues : main(enable, run_main)
    \/ \E i \in 1..MaxProcesses : reloader_child(i)
    \/ \E i \in 1..MaxProcesses : process_exit(i)

SpecStartup == InitStartup /\ [][NextStartup]_vars

-----------------------------------------------------------------------------
(* The worker and time columns that hold no list of times *)

\* What the column times of schedule 1 can hold: the empty list, NULL,
\* and values that spell out times without being a list of them.
TimeColumns ==
    { <<"json_list", <<>> >>,
      <<"list", <<>> >>,
      <<"null", <<>> >>,
      <<"json_scalar", << <<8, 0>> >> >>,
      <<"text", << <<8, 0>>, <<23, 30>> >> >>,
      <<"number", << <<8, 0>> >> >> }

\* Schedule 1 of patient 1 with such a column, next to a schedule of
\* patient 2 with two doses a day.
InitTimes ==
    /\ clock \in StartClocks
    /\ \E c \in TimeColumns :
          schedules =
             << ScheduleRowWithColumn(1, 1, TRUE, None, None, c[1], c[2]),
                ScheduleRow(2, 2, TRUE, None, None,
                            << <<8, 0>>, <<23, 30>> >>) >>
    /\ prefs = [u \in Users |-> NoPrefsRow]
    /\ ledger = <<>>
    /\ notifications = <<>>
    /\ reminder_cache = EmptyMap
    /\ retry_cache = EmptyMap
    /\ missed_cache = EmptyMap
    /\ restarts = 0
    /\ life_mark = 0
    /\ IdleChannels
    /\ IdleThread
    /\ quiet_call = NoQuietCall
    /\ IdleGuard

NextTimes ==
    \/ \E d \in Steps : medication_reminder_worker(d)
    \/ Restart

SpecTimes == InitTimes /\ [][NextTimes]_vars

-----------------------------------------------------------------------------
(* The worker and the validity of schedules *)

\* (active, start_date, end_date) of schedule 1: switched off, starting
\* on day 1, ending on day 0, valid on day 0 only, always valid.
Validities ==
    { <<FALSE, None, None>>,
      <<TRUE, 1, None>>,
      <<TRUE, None, 0>>,
      <<TRUE, 0, 0>>,
      <<TRUE, None, None>> }

\* Schedule 1 with doses at 00:00, 08:00 and 23:30 and such a validity.
InitValidity ==
    /\ clock \in StartClocks
    /\ \E v \in Validities :
          schedules =
             << ScheduleRow(1, 1, v[1], v[2], v[3],
                            << <<0, 0>>, <<8, 0>>, <<23, 30>> >>) >>
    /\ prefs = [u \in Users |-> NoPrefsRow]
    /\ ledger = <<>>
    /\ notifications = <<>>
    /\ reminder_cache = EmptyMap
    /\ retry_cache = EmptyMap
    /\ missed_cache = EmptyMap
    /\ restarts = 0
    /\ life_mark = 0
    /\ IdleChannels
    /\ IdleThread
    /\ quiet_call = NoQuietCall
    /\ IdleGuard

SpecValidity == InitValidity /\ [][NextTimes]_vars

-----------------------------------------------------------------------------
(* The worker two days after a schedule has ended *)

\* A schedule that ended on day 0.
EndedSchedules ==
    << ScheduleRow(1, 1, TRUE, None, 0, << <<8, 0>> >>) >>

\* What day 0 left in the caches for its 08:00 dose, which nobody logged:
\* the mark of the initial reminder (sent at 08:00, 08:05 or 08:10), the
\* retry counter of the last reminder (the initial one or a follow-up up
\* to 08:30) and the missed latch (set at 09:05 or 09:10).
InitSweep ==
    /\ clock \in LateClocks
    /\ schedules = EndedSchedules
    /\ prefs = [u \in Users |-> NoPrefsRow]
    /\ ledger = << LedgerRow(1, 1, 8 * 60, "missed", "scheduler") >>
    /\ \E sent \in {8 * 60, 8 * 60 + 5, 8 * 60 + 10},
          again \in {None, 8 * 60 + 20, 8 * 60 + 25, 8 * 60 + 30},
          latched \in {9 * 60 + 5, 9 * 60 + 10} :
          /\ reminder_cache = Put(EmptyMap, CacheKey(1, 1, 8 * 60), sent)
          /\ retry_cache = Put(EmptyMap, CacheKey(1, 1, 8 * 60),
                               IF again = None
                               THEN [count |-> 1, ts |-> sent]
                               ELSE [count |-> 2, ts |-> again])
          /\ missed_cache = Put(EmptyMap, CacheKey(1, 1, 8 * 60), latched)
          /\ notifications =
                <<NotificationRow(1, "medication_reminder",
                                  "Medication Reminder", 1, 8 * 60)>>
                \o (IF again = None THEN <<>>
                    ELSE <<NotificationRow(1, "medication_reminder",
                               "Medication Reminder (Follow-up)", 1, 8 * 60)>>)
                \o <<NotificationRow(1, "medication", "Missed Dose Alert",
                                     1, 8 * 60)>>
    /\ restarts = 0
    /\ life_mark = 0
    /\ IdleChannels
    /\ IdleThread
    /\ quiet_call = NoQuietCall
    /\ IdleGuard

NextSweep ==
    \/ \E d \in Steps : medication_reminder_worker(d)
    \/ Restart

SpecSweep == InitSweep /\ [][NextSweep]_vars

-----------------------------------------------------------------------------
(* The worker and manual reminders *)

\* The worker ticks and patient 1 asks for reminders.
NextManual ==
    \/ \E d \in Steps : medication_reminder_worker(d)
    \/ \E sid \in RemindSchedules, net \in NetOutcomes(environ) :
           send_medication_reminder(1, sid, net)

SpecManual == Init /\ [][NextManual]_vars

-----------------------------------------------------------------------------
(* The worker and the patients' time zones *)

\* Patient 1 stores a timezone, the worker ticks.
NextZone ==
    \/ \E d \in Steps : medication_reminder_worker(d)
    \/ \E z \in ZoneNames : notification_preferences(1, None, None, z)

SpecZone == Init /\ [][NextZone]_vars

-----------------------------------------------------------------------------
(* The worker around midnight *)

\* A schedule with evening doses: 22:40, 23:00 and 23:30.
NightSchedules ==
    << ScheduleRow(1, 1, TRUE, None, None,
                   << <<22, 40>>, <<23, 0>>, <<23, 30>> >>) >>

\* The process has started at 23:25 of day 0.
InitNight ==
    /\ clock = 23 * 60 + 25
    /\ schedules = NightSchedules
    /\ prefs = [u \in Users |-> NoPrefsRow]
    /\ ledger = <<>>
    /\ notifications = <<>>
    /\ reminder_cache = EmptyMap
    /\ retry_cache = EmptyMap
    /\ missed_cache = EmptyMap
    /\ restarts = 0
    /\ life_mark = 0
    /\ IdleChannels
    /\ IdleThread
    /\ quiet_call = NoQuietCall
    /\ IdleGuard

SpecNight == InitNight /\ [][Next]_vars

-----------------------------------------------------------------------------
(* Vocabulary of the properties *)

\* A step of the worker: only a tick moves the clock.
IsTick == clock' # clock

\* Dose instants of the two days the model spans.
Instants == {d * MinutesPerDay + tod : d \in 0..1, tod \in SlotTimes}

ScheduleIds == {schedules[j].id : j \in DOMAIN schedules}

\* Ledger rows (by position) of the dose instance (sid, dt).
LedgerOf(rows, sid, dt) ==
    {i \in DOMAIN rows :
        rows[i].schedule_id = sid /\ rows[i].scheduled_time = dt}

\* Notifications (by position) a tick created for the dose instance.
NotifsOf(rows, sid, dt) ==
    {i \in DOMAIN rows : rows[i].schedule_id = sid /\ rows[i].slot = dt}

\* Notifications of the instance with the given title.
Titled(rows, sid, dt, title) ==
    {i \in NotifsOf(rows, sid, dt) : rows[i].title = title}

\* Rows of the instance the worker inserted.
SchedulerRows(rows, sid, dt) ==
    {i \in LedgerOf(rows, sid, dt) : rows[i].source = "scheduler"}

\* Rows of the instance a patient inserted.
PatientRows(rows, sid, dt) ==
    {i \in LedgerOf(rows, sid, dt) : rows[i].source = "patient"}

\* The (schedule row, time entry) pairs of the schedule table.
SlotRefs ==
    UNION {{<<j, i>> : i \in DOMAIN DecodeTimes(schedules[j].times_kind,
                                                schedules[j].times)} :
              j \in DOMAIN schedules}

\* The pairs a tick at instant now evaluates: the schedule is selected and
\* the entry is a time of day.
EvaluatedRefs(now) ==
    {r \in SlotRefs :
        /\ IsLoadable(schedules[r[1]], DayOf(now))
        /\ ParseTimeOfDay(schedules[r[1]].times[r[2]]) # None}

\* The dose instant of an evaluated pair on the day of now.
InstantOf(r, now) ==
    ScheduledLocal(now, ParseTimeOfDay(schedules[r[1]].times[r[2]]))

\* The user's quiet hours hold at instant now.
QuietFor(user_id, now) ==
    LET p == get_notification_preferences(prefs, user_id)
    IN  is_quiet_hours(now, p.quiet_hours_start, p.quiet_hours_end)

-----------------------------------------------------------------------------
(* C1 *)

\* C1: once the ledger holds an entry for a dose instance, no later tick
\* creates a notification or inserts a ledger row for that instance,
\* whatever the caches hold (they may have been emptied by a restart).
C1_ResolvedInstanceIsLeftAlone ==
    [][IsTick =>
        \A sid \in ScheduleIds, dt \in Instants :
            LedgerOf(ledger, sid, dt) # {} =>
                /\ LedgerOf(ledger', sid, dt) = LedgerOf(ledger, sid, dt)
                /\ NotifsOf(notifications', sid, dt)
                     = NotifsOf(notifications, sid, dt)]_vars

\* C1 witness: the 08:00 dose has its single ledger row, the process was
\* restarted after it (no latch in the cache) and a tick has run since the
\* restart (it sent the 23:30 reminder).
C1_Witness ==
    /\ restarts = 1
    /\ Cardinality(LedgerOf(ledger, 1, 8 * 60)) = 1
    /\ CacheKey(1, 1, 8 * 60) \notin DOMAIN missed_cache
    /\ CacheKey(1, 1, 23 * 60 + 30) \in DOMAIN reminder_cache

-----------------------------------------------------------------------------
(* C2 *)

\* C2: for a dose instance the patient never logs, a tick that finds it
\* more than 60 minutes old leaves exactly one ledger row for it, the
\* scheduler's missed row; no tick ever leaves a second scheduler row.
C2_ExactlyOneMissedRow ==
    [][IsTick =>
        /\ \A r \in EvaluatedRefs(clock') :
             LET sid == schedules[r[1]].id
                 dt == InstantOf(r, clock')
             IN  (/\ clock' - dt > MissedAfterMin
                  /\ PatientRows(ledger', sid, dt) = {})
                 => /\ Cardinality(LedgerOf(ledger', sid, dt)) = 1
                    /\ \A i \in LedgerOf(ledger', sid, dt) :
                          ledger'[i].status = "missed"
        /\ \A sid \in ScheduleIds, dt \in Instants :
             Cardinality(SchedulerRows(ledger', sid, dt)) <= 1]_vars

\* C2 witness: the 08:00 dose was never logged, has its one missed row, and
\* the worker has ticked again after the tick that latched it.
C2_Witness ==
    /\ PatientRows(ledger, 1, 8 * 60) = {}
    /\ Cardinality(SchedulerRows(ledger, 1, 8 * 60)) = 1
    /\ CacheKey(1, 1, 8 * 60) \in DOMAIN missed_cache
    /\ missed_cache[CacheKey(1, 1, 8 * 60)] < clock
    /\ DayOf(clock) = 0

-----------------------------------------------------------------------------
(* C3 *)

\* C3: when a patient has logged "taken" for a dose whose initial reminder
\* was sent, every later tick creates no notification and inserts no
\* ledger row for it (no follow-up, no missed row).
C3_TakenStopsReminders ==
    [][IsTick =>
        \A sid \in ScheduleIds, dt \in Instants :
            (/\ \E i \in PatientRows(ledger, sid, dt) :
                    ledger[i].status = "taken"
             /\ Titled(notifications, sid, dt, "Medication Reminder") # {})
            => /\ Cardinality(LedgerOf(ledger', sid, dt))
                    = Cardinality(LedgerOf(ledger, sid, dt))
               /\ Cardinality(NotifsOf(notifications', sid, dt))
                    = Cardinality(NotifsOf(notifications, sid, dt))]_vars

\* C3 witness: the 08:00 dose got its initial reminder, was logged taken,
\* and a tick more than 60 minutes after 08:00 has run: the reminder and
\* the patient's row are all there is.
C3_Witness ==
    /\ clock > 8 * 60 + MissedAfterMin
    /\ DayOf(clock) = 0
    /\ Cardinality(NotifsOf(notifications, 1, 8 * 60)) = 1
    /\ Titled(notifications, 1, 8 * 60, "Medication Reminder") # {}
    /\ Cardinality(LedgerOf(ledger, 1, 8 * 60)) = 1
    /\ \E i \in PatientRows(ledger, 1, 8 * 60) : ledger[i].status = "taken"

-----------------------------------------------------------------------------
(* C4 *)

\* Notifications created since the process started.
InLife(rows) == {i \in DOMAIN rows : i > life_mark}

\* Initial reminders of the instance sent by the running process.
InitialsInLife(sid, dt) ==
    Titled(notifications, sid, dt, "Medication Reminder") \cap InLife(notifications)

\* Follow-ups of the instance sent by the running process.
FollowUpsInLife(sid, dt) ==
    Titled(notifications, sid, dt, "Medication Reminder (Follow-up)")
        \cap InLife(notifications)

\* C4 as stated: over any sequence of ticks a slot gets its initial
\* reminder at most once.
C4_Original ==
    \A sid \in ScheduleIds, dt \in Instants :
        Cardinality(Titled(notifications, sid, dt, "Medication Reminder")) <= 1

\* C4 amended: within one process lifetime (the cache is not emptied by a
\* restart) a slot gets its initial reminder at most once.
C4_InitialOncePerLifetime ==
    \A sid \in ScheduleIds, dt \in Instants :
        Cardinality(InitialsInLife(sid, dt)) <= 1

\* C4 witness: the 08:00 reminder was sent by this process and a later
\* tick has run while the dose was still in its initial window.
C4_Witness ==
    /\ Cardinality(InitialsInLife(1, 8 * 60)) = 1
    /\ CacheKey(1, 1, 8 * 60) \in DOMAIN reminder_cache
    /\ reminder_cache[CacheKey(1, 1, 8 * 60)] < clock
    /\ clock <= 8 * 60 + InitialWindowMin
    /\ LedgerOf(ledger, 1, 8 * 60) = {}
    /\ ~QuietFor(1, clock)

-----------------------------------------------------------------------------
(* C5 *)

\* C5 as stated: over any sequence of ticks a slot gets at most 2
\* follow-up reminders.
C5_Original ==
    \A sid \in ScheduleIds, dt \in Instants :
        Cardinality(Titled(notifications, sid, dt,
                           "Medication Reminder (Follow-up)")) <= 2

\* C5 amended: within one process lifetime a slot gets at most 2 follow-up
\* reminders.
C5_TwoFollowUpsPerLifetime ==
    \A sid \in ScheduleIds, dt \in Instants :
        Cardinality(FollowUpsInLife(sid, dt)) <= 2

\* C5 witness: this process sent two follow-ups for the 08:00 dose and has
\* ticked again inside the retry window.
C5_Witness ==
    /\ Cardinality(FollowUpsInLife(1, 8 * 60)) = 2
    /\ CacheKey(1, 1, 8 * 60) \in DOMAIN retry_cache
    /\ retry_cache[CacheKey(1, 1, 8 * 60)].ts < clock
    /\ clock <= 8 * 60 + RetryWindowMin
    /\ LedgerOf(ledger, 1, 8 * 60) = {}
    /\ ~QuietFor(1, clock)

-----------------------------------------------------------------------------
(* C6 *)

\* C6: within one process lifetime a slot whose initial reminder was sent
\* gets at most one follow-up, and a slot gets at most two reminders in
\* total.
C6_AtMostTwoReminders ==
    \A sid \in ScheduleIds, dt \in Instants :
        /\ InitialsInLife(sid, dt) # {}
              => Cardinality(FollowUpsInLife(sid, dt)) <= 1
        /\ Cardinality(InitialsInLife(sid, dt))
             + Cardinality(FollowUpsInLife(sid, dt)) <= 2

\* C6 witness: this process sent the initial reminder and one follow-up
\* for the 08:00 dose, and has ticked again inside the retry window.
C6_Witness ==
    /\ Cardinality(InitialsInLife(1, 8 * 60)) = 1
    /\ Cardinality(FollowUpsInLife(1, 8 * 60)) = 1
    /\ CacheKey(1, 1, 8 * 60) \in DOMAIN retry_cache
    /\ retry_cache[CacheKey(1, 1, 8 * 60)].ts < clock
    /\ clock <= 8 * 60 + RetryWindowMin
    /\ ~QuietFor(1, clock)
    /\ LedgerOf(ledger, 1, 8 * 60) = {}

-----------------------------------------------------------------------------
(* C7 *)

\* C7: every ledger row a tick inserts has status missed and belongs to a
\* slot more than 60 minutes old; ticks that find a slot in its initial or
\* retry window insert nothing.
C7_OnlyMissedRowsAfterAnHour ==
    [][IsTick =>
        /\ Len(ledger') >= Len(ledger)
        /\ \A i \in DOMAIN ledger' :
              i > Len(ledger) =>
                /\ ledger'[i].status = "missed"
                /\ clock' - ledger'[i].scheduled_time > MissedAfterMin
        /\ \A i \in DOMAIN ledger : ledger'[i] = ledger[i]]_vars

\* C7 witness: the 08:00 dose went through its initial and retry windows
\* (both reminders exist) and its missed row is the only ledger row.
C7_Witness ==
    /\ Titled(notifications, 1, 8 * 60, "Medication Reminder") # {}
    /\ Titled(notifications, 1, 8 * 60, "Medication Reminder (Follow-up)") # {}
    /\ Len(ledger) = 1
    /\ ledger[1].status = "missed"
    /\ ledger[1].scheduled_time = 8 * 60

-----------------------------------------------------------------------------
(* C8 *)

\* The cache entries of a key are the same before and after the step.
CacheEntryUnchanged(key) ==
    /\ (key \in DOMAIN reminder_cache') = (key \in DOMAIN reminder_cache)
    /\ (key \in DOMAIN retry_cache') = (key \in DOMAIN retry_cache)
    /\ (key \in DOMAIN missed_cache') = (key \in DOMAIN missed_cache)
    /\ key \in DOMAIN reminder_cache => reminder_cache'[key] = reminder_cache[key]
    /\ key \in DOMAIN retry_cache => retry_cache'[key] = retry_cache[key]
    /\ key \in DOMAIN missed_cache => missed_cache'[key] = missed_cache[key]

\* C8: for a slot whose instant is later than the tick's now, the tick
\* inserts no ledger row, creates no notification and changes no cache
\* entry of the slot.
C8_FutureSlotUntouched ==
    [][IsTick =>
        \A r \in EvaluatedRefs(clock') :
            LET row == schedules[r[1]]
                dt == InstantOf(r, clock')
            IN  dt > clock' =>
                  /\ LedgerOf(ledger', row.id, dt) = LedgerOf(ledger, row.id, dt)
                  /\ NotifsOf(notifications', row.id, dt) = {}
                  /\ CacheEntryUnchanged(CacheKey(row.user_id, row.id, dt))]_vars

\* C8 witness: ticks have run on day 0 before 23:30 (the 08:00 reminder is
\* out) and nothing exists for the 23:30 dose.
C8_Witness ==
    /\ clock < 23 * 60 + 30
    /\ Titled(notifications, 1, 8 * 60, "Medication Reminder") # {}
    /\ NotifsOf(notifications, 1, 23 * 60 + 30) = {}
    /\ LedgerOf(ledger, 1, 23 * 60 + 30) = {}
    /\ CacheKey(1, 1, 23 * 60 + 30) \notin
          (DOMAIN reminder_cache \cup DOMAIN retry_cache \cup DOMAIN missed_cache)

-----------------------------------------------------------------------------
(* C9 *)

\* Notifications (by position) of a user.
NotifsOfUser(rows, user_id) == {i \in DOMAIN rows : rows[i].user_id = user_id}

\* C9: a tick that runs while the user's time is inside their quiet hours
\* creates no notification for that user.
C9_QuietHoursSilence ==
    [][IsTick =>
        \A u \in Users :
            QuietFor(u, clock') =>
                NotifsOfUser(notifications', u) = NotifsOfUser(notifications, u)]_vars

\* C9 witness: two ticks have found the untaken 08:00 dose in its initial
\* window during quiet hours, and no notification exists.
C9_Witness ==
    /\ clock = 8 * 60 + 5
    /\ QuietFor(1, clock)
    /\ LedgerOf(ledger, 1, 8 * 60) = {}
    /\ notifications = <<>>
    /\ restarts = 0

-----------------------------------------------------------------------------
(* C10 *)

\* C10: a tick that runs during the user's quiet hours and finds an
\* untaken, not yet latched slot more than 60 minutes old inserts its
\* missed row.
C10_QuietHoursStillRecordMiss ==
    [][IsTick =>
        \A r \in EvaluatedRefs(clock') :
            LET row == schedules[r[1]]
                dt == InstantOf(r, clock')
            IN  (/\ QuietFor(row.user_id, clock')
                 /\ clock' - dt > MissedAfterMin
                 /\ LedgerOf(ledger, row.id, dt) = {}
                 /\ CacheKey(row.user_id, row.id, dt) \notin DOMAIN missed_cache)
                => \E i \in SchedulerRows(ledger', row.id, dt) :
                      ledger'[i].status = "missed"]_vars

\* C10 witness: the tick that just ran during quiet hours latched the
\* 08:00 dose: its missed row exists and no alert was created.
C10_Witness ==
    /\ QuietFor(1, clock)
    /\ CacheKey(1, 1, 8 * 60) \in DOMAIN missed_cache
    /\ missed_cache[CacheKey(1, 1, 8 * 60)] = clock
    /\ SchedulerRows(ledger, 1, 8 * 60) # {}
    /\ Titled(notifications, 1, 8 * 60, "Missed Dose Alert") = {}

-----------------------------------------------------------------------------
(* C11 *)

\* C11: a tick that finds an untaken slot in its initial or retry window
\* while the user's quiet hours hold leaves the slot's cache entries as
\* they were: no initial-send mark is set and the retry counter is not
\* incremented.
C11_QuietSuppressionLeavesDedupState ==
    [][IsTick =>
        \A r \in EvaluatedRefs(clock') :
            LET row == schedules[r[1]]
                dt == InstantOf(r, clock')
            IN  (/\ QuietFor(row.user_id, clock')
                 /\ 0 <= clock' - dt
                 /\ clock' - dt <= RetryWindowMin
                 /\ LedgerOf(ledger, row.id, dt) = {})
                => CacheEntryUnchanged(CacheKey(row.user_id, row.id, dt))]_vars

\* C11 witness: ticks have suppressed the untaken 08:00 dose up to its
\* retry window (08:20, still quiet) and no cache holds its key.
C11_Witness ==
    /\ clock = 8 * 60 + 20
    /\ QuietFor(1, clock)
    /\ restarts = 0
    /\ LedgerOf(ledger, 1, 8 * 60) = {}
    /\ NotifsOf(notifications, 1, 8 * 60) = {}
    /\ CacheKey(1, 1, 8 * 60) \notin
          (DOMAIN reminder_cache \cup DOMAIN retry_cache)

-----------------------------------------------------------------------------
(* C12 *)

\* Reminders of either kind the running process sent for the instance.
RemindersInLife(sid, dt) == InitialsInLife(sid, dt) \cup FollowUpsInLife(sid, dt)

\* C12: a tick outside the user's quiet hours sends the reminder an untaken
\* slot is still owed: the initial reminder when the slot is at most 15
\* minutes old and the running process has sent none, a follow-up when it
\* is between 15 and 30 minutes old and fewer than two reminders went out.
\* With C11 (a suppressed reminder stays owed) this is the first tick after
\* the end of quiet hours sending what was suppressed.
C12_SendsWhenQuietHoursEnd ==
    [][IsTick =>
        \A r \in EvaluatedRefs(clock') :
            LET row == schedules[r[1]]
                dt == InstantOf(r, clock')
                elapsed == clock' - dt
            IN  (/\ ~QuietFor(row.user_id, clock')
                 /\ 0 <= elapsed
                 /\ LedgerOf(ledger, row.id, dt) = {})
                => /\ (/\ elapsed <= InitialWindowMin
                       /\ InitialsInLife(row.id, dt) = {})
                      => Titled(notifications', row.id, dt, "Medication Reminder")
                           # Titled(notifications, row.id, dt, "Medication Reminder")
                   /\ (/\ InitialWindowMin < elapsed
                       /\ elapsed <= RetryWindowMin
                       /\ Cardinality(RemindersInLife(row.id, dt)) < MaxRetryCount)
                      => Titled(notifications', row.id, dt,
                                "Medication Reminder (Follow-up)")
                           # Titled(notifications, row.id, dt,
                                    "Medication Reminder (Follow-up)")]_vars

\* C12 witness: quiet hours 07:50-08:20 suppressed the 08:00 dose through
\* its initial window; the tick that just ran after 08:20 sent the
\* follow-up, the first notification of the dose.
C12_Witness ==
    /\ clock > 8 * 60 + 20
    /\ clock <= 8 * 60 + 30
    /\ restarts = 0
    /\ prefs[1].exists
    /\ prefs[1].quiet_hours_start = 7 * 60 + 50
    /\ prefs[1].quiet_hours_end = 8 * 60 + 20
    /\ Titled(notifications, 1, 8 * 60, "Medication Reminder") = {}
    /\ Titled(notifications, 1, 8 * 60, "Medication Reminder (Follow-up)") # {}
    /\ CacheKey(1, 1, 8 * 60) \in DOMAIN retry_cache
    /\ retry_cache[CacheKey(1, 1, 8 * 60)].ts = clock

-----------------------------------------------------------------------------
(* C13 *)

\* C13: _is_quiet_hours handles ranges that wrap past midnight.  With the
\* start later than the end (22:00-06:00) a time is inside iff it is at or
\* after the start or at or before the end; with the start earlier than
\* the end it is inside iff it lies between them (bounds included); with a
\* bound absent nothing is inside.
C13_IsQuietHoursWraps ==
    quiet_call.done =>
        LET t == quiet_call.now % MinutesPerDay
            start == quiet_call.start_time
            end == quiet_call.end_time
        IN  /\ (start = None \/ end = None) => ~quiet_call.result
            /\ (start # None /\ end # None /\ start > end)
                  => (quiet_call.result <=> (t >= start \/ t <= end))
            /\ (start # None /\ end # None /\ start < end)
                  => (quiet_call.result <=> (start <= t /\ t <= end))

\* C13 witness: 02:00 was found inside 22:00-06:00.
C13_Witness ==
    /\ quiet_call.done
    /\ quiet_call.start_time = 22 * 60
    /\ quiet_call.end_time = 6 * 60
    /\ quiet_call.now % MinutesPerDay = 2 * 60
    /\ quiet_call.result

-----------------------------------------------------------------------------
(* C14 *)

\* A step that is a call of create_notification.
IsDispatch == outbound'.seq # outbound.seq

\* C14: every call of create_notification adds exactly one row to
\* notifications, for the user and type of the call, whatever the
\* preference toggles, the contact column and the outcome of the email and
\* SMS attempts.
C14_OneRowPerDispatch ==
    [][IsDispatch =>
        /\ Len(notifications') = Len(notifications) + 1
        /\ SubSeq(notifications', 1, Len(notifications)) = notifications
        /\ notifications'[Len(notifications')].user_id = outbound'.user_id
        /\ notifications'[Len(notifications')].type = outbound'.type]_vars

\* C14 witness: a call whose category toggle is off has left its row.
C14_Witness ==
    /\ outbound.seq = 1
    /\ outbound.type = "medication"
    /\ prefs[1].exists
    /\ ~prefs[1].medication_reminders
    /\ Len(notifications) = 1
    /\ notifications[1].type = "medication"

-----------------------------------------------------------------------------
(* C15 *)

\* C15: when the medication toggle is off, a call of type
\* medication_reminder or medication attempts neither email nor SMS; an
\* email is attempted only if the contact resolves to an address and email
\* is enabled, an SMS only if it resolves to a number and SMS is enabled.
C15_ChannelsFollowPreferences ==
    outbound.seq > 0 =>
        LET p == get_notification_preferences(prefs, outbound.user_id)
            contact == contacts[outbound.user_id]
        IN  /\ (/\ outbound.type \in {"medication_reminder", "medication"}
                 /\ ~p.medication_reminders)
                  => ~outbound.email.called /\ ~outbound.sms.called
            /\ outbound.email.called
                  => contact.at /\ p.email_notifications
            /\ outbound.sms.called
                  => contact.digits >= MinPhoneDigits /\ p.sms_notifications

\* C15 witness: a medication call with every toggle on and a contact that
\* resolves both ways attempted email and SMS.
C15_Witness ==
    /\ outbound.seq = 1
    /\ outbound.type = "medication"
    /\ prefs[1].exists
    /\ outbound.email.called
    /\ outbound.sms.called

-----------------------------------------------------------------------------
(* C16 *)

\* C16: for a user without a row in notification_preferences, a call of
\* create_notification does not fail: it creates the row in notifications
\* and applies the defaults (every category toggle on, email enabled, SMS
\* disabled, no quiet hours).
C16_NoRecordDispatchSucceeds ==
    (outbound.seq > 0 /\ ~prefs[outbound.user_id].exists) =>
        LET p == get_notification_preferences(prefs, outbound.user_id)
            contact == contacts[outbound.user_id]
        IN  /\ ~outbound.raised
            /\ Len(notifications) = outbound.seq
            /\ p.medication_reminders /\ p.health_alerts
            /\ p.appointment_reminders /\ p.wellness_tips
            /\ p.email_notifications /\ ~p.sms_notifications
            /\ p.quiet_hours_start = None /\ p.quiet_hours_end = None
            /\ outbound.email.called = contact.at
            /\ ~outbound.sms.called

-----------------------------------------------------------------------------
(* C17 *)

\* C17: an email send tries the transactional-email API first and goes on
\* to direct SMTP exactly when the API attempt did not succeed (disabled,
\* unconfigured or failed); whatever fails, the send returns false and
\* nothing is raised to the caller of create_notification.
C17_EmailFallbackNeverRaises ==
    outbound.email.called =>
        LET r == outbound.email.requests
        IN  /\ \A i \in DOMAIN r, j \in DOMAIN r :
                  (r[i] = "sendgrid_post" /\ r[j] = "smtp_send") => i < j
            /\ (outbound.email.smtp # "none")
                  <=> (outbound.email.api # "accepted")
            /\ outbound.email.result \in {"true", "false"}
            /\ ~outbound.raised

-----------------------------------------------------------------------------
(* C18 *)

\* C18: an SMS send issues its send request only after the access token
\* was fetched successfully in the same call; when the token fetch fails
\* or SMS is not enabled, no send request is issued and the send returns
\* false without raising.
C18_SmsOnlyAfterToken ==
    outbound.sms.called =>
        LET r == outbound.sms.requests
        IN  /\ \A i \in DOMAIN r :
                  r[i] = "sms_post" =>
                      /\ outbound.sms.token = "issued"
                      /\ \E j \in 1..(i - 1) : r[j] = "token_get"
            /\ (outbound.sms.token # "issued" \/ ~environ.ENABLE_DARAJA_SMS)
                  => /\ \A i \in DOMAIN r : r[i] # "sms_post"
                     /\ outbound.sms.result = "false"
            /\ ~environ.ENABLE_DARAJA_SMS => r = <<>>
            /\ outbound.sms.result \in {"true", "false"}

\* C18 witness: the token was issued and the send request followed it.
C18_Witness ==
    /\ outbound.sms.called
    /\ outbound.sms.token = "issued"
    /\ outbound.sms.requests = <<"token_get", "sms_post">>

-----------------------------------------------------------------------------
(* C19 *)

\* C19: when the processing of one schedule raises inside a tick, the due
\* slots of the other users' schedules loaded in that tick are still
\* processed: an untaken slot of another user that is in its initial
\* window, outside quiet hours and without a reminder gets its reminder
\* in that tick.
C19_OtherUsersStillProcessed ==
    [][IsTick =>
        \A r \in EvaluatedRefs(clock') :
            LET row == schedules[r[1]]
                dt == InstantOf(r, clock')
            IN  (/\ tick_error' # None
                 /\ \A j \in DOMAIN schedules :
                       schedules[j].id = tick_error'
                           => schedules[j].user_id # row.user_id
                 /\ ~QuietFor(row.user_id, clock')
                 /\ 0 <= clock' - dt
                 /\ clock' - dt <= InitialWindowMin
                 /\ LedgerOf(ledger, row.id, dt) = {}
                 /\ InitialsInLife(row.id, dt) = {})
                => Titled(notifications', row.id, dt, "Medication Reminder")
                     # {}]_vars

-----------------------------------------------------------------------------
(* C20 *)

-----------------------------------------------------------------------------
(* C21 *)

\* C21: a slot handled as Missed in a tick that raised afterwards still
\* ends with a durable missed row.  Stated on the next tick that ends
\* without an exception: every slot it evaluates that is more than 60
\* minutes old, that the patient has not logged and that carries the missed
\* latch has a committed missed row of the scheduler.
C21_MissedRowSurvivesAbort ==
    [][IsTick =>
        \A r \in EvaluatedRefs(clock') :
            LET row == schedules[r[1]]
                dt == InstantOf(r, clock')
            IN  (/\ tick_error' = None
                 /\ clock' - dt > MissedAfterMin
                 /\ PatientRows(ledger', row.id, dt) = {}
                 /\ CacheKey(row.user_id, row.id, dt) \in DOMAIN missed_cache')
                => \E i \in SchedulerRows(ledger', row.id, dt) :
                      ledger'[i].status = "missed"]_vars

-----------------------------------------------------------------------------
(* C22 *)

\* The dose instants of a schedule row up to instant now: each time of day
\* of its list on each day the row is selected.
DoseInstants(row, now) ==
    {dt \in {day * MinutesPerDay + ParseTimeOfDay(row.times[i]) :
                day \in 0..DayOf(now),
                i \in {k \in DOMAIN row.times :
                          ParseTimeOfDay(row.times[k]) # None}} :
        /\ dt <= now
        /\ IsLoadable(row, DayOf(dt))}

\* C22: every dose instance of an active schedule that the patient never
\* logs gets a missed row of the scheduler once more than 60 minutes have
\* elapsed, whatever its time of day.  Stated on the ticks of a worker that
\* never fails: after a tick, every dose instance that is more than 60
\* minutes old and has no row of the patient has a missed row.
C22_EveryUnloggedDoseIsMissed ==
    [][IsTick =>
        \A j \in DOMAIN schedules :
            \A dt \in DoseInstants(schedules[j], clock') :
                (/\ clock' - dt > MissedAfterMin
                 /\ PatientRows(ledger', schedules[j].id, dt) = {})
                => \E i \in SchedulerRows(ledger', schedules[j].id, dt) :
                      ledger'[i].status = "missed"]_vars

-----------------------------------------------------------------------------
(* C23 *)

\* C23: an untaken slot of an active schedule gets its initial reminder
\* while it is in the initial window.  After a tick outside the user's
\* quiet hours at which the slot is at most 15 minutes old and has no
\* ledger row, an initial reminder for the dose instance exists.
C23_InitialSentInWindow ==
    [][IsTick =>
        \A r \in EvaluatedRefs(clock') :
            LET row == schedules[r[1]]
                dt == InstantOf(r, clock')
            IN  (/\ ~QuietFor(row.user_id, clock')
                 /\ 0 <= clock' - dt
                 /\ clock' - dt <= InitialWindowMin
                 /\ LedgerOf(ledger', row.id, dt) = {})
                => \E i \in NotifsOf(notifications', row.id, dt) :
                      /\ notifications'[i].type = "medication_reminder"
                      /\ notifications'[i].title = "Medication Reminder"]_vars

\* C23 witness: the first tick that saw the 08:00 dose ran at 08:10, found
\* it untaken and outside quiet hours, and sent the initial reminder.
C23_Witness ==
    /\ clock = 8 * 60 + 10
    /\ ~QuietFor(1, clock)
    /\ LedgerOf(ledger, 1, 8 * 60) = {}
    /\ CacheKey(1, 1, 8 * 60) \in DOMAIN reminder_cache
    /\ reminder_cache[CacheKey(1, 1, 8 * 60)] = clock
    /\ \E i \in NotifsOf(notifications, 1, 8 * 60) :
          notifications[i].title = "Medication Reminder"

-----------------------------------------------------------------------------
(* C24 *)

\* C24: at most one reminder worker is live in the deployment, whatever
\* the startup sequence: among the running processes that executed the
\* startup code, a parent and its reloader child included, at most one
\* has started the worker thread.
C24_AtMostOneLiveWorker ==
    Cardinality(LiveWorkers(processes)) <= 1

-----------------------------------------------------------------------------
(* C25 *)

\* The zone of the user's preference record: the stored one when there is
\* a row and ZoneInfo knows the name, UTC otherwise.
StoredZone(user_id) ==
    IF prefs[user_id].exists /\ prefs[user_id].timezone \in KnownZones
    THEN prefs[user_id].timezone
    ELSE "UTC"

\* C25: the scheduler computes in the timezone stored in the user's
\* preference record, and in UTC only when none is stored or the stored
\* name is not a zone.  Every notification a tick creates for a dose is
\* for an instant that, on the wall clock of that zone, is a time of day
\* of the schedule's list.
C25_SlotsInStoredZone ==
    [][IsTick =>
        \A i \in DOMAIN notifications' \ DOMAIN notifications :
            LET n == notifications'[i]
                local == n.slot + UtcOffset(StoredZone(n.user_id))
            IN  \E r \in EvaluatedRefs(clock') :
                   /\ schedules[r[1]].id = n.schedule_id
                   /\ ParseTimeOfDay(schedules[r[1]].times[r[2]])
                          = TimeOfDay(local)]_vars

-----------------------------------------------------------------------------
(* C26 *)

\* C26: under any interleaving of intake requests and ticks, the ledger
\* holds at most one entry per dose instance (schedule, scheduled instant).
C26_OneEntryPerDoseInstance ==
    \A sid \in ScheduleIds, dt \in Instants :
        Cardinality(LedgerOf(ledger, sid, dt)) <= 1

-----------------------------------------------------------------------------
(* C27 *)

\* A step that is an accepted POST /medications/remind.
IsRemind == IsDispatch /\ outbound'.caller = "remind"

\* C27: a manual reminder goes through the dispatcher the worker's
\* reminders go through, with their type: the request adds exactly one
\* notification row of type medication_reminder for the user whatever the
\* toggles are, and attempts email (SMS) only when the medication toggle
\* and the email (SMS) toggle are on.
C27_ManualReminderIsDispatched ==
    [][IsRemind =>
        LET uid == outbound'.user_id
            p == get_notification_preferences(prefs, uid)
            last == notifications'[Len(notifications')]
        IN  /\ Len(notifications') = Len(notifications) + 1
            /\ SubSeq(notifications', 1, Len(notifications)) = notifications
            /\ last.user_id = uid
            /\ last.type = "medication_reminder"
            /\ outbound'.type = last.type
            /\ outbound'.email.called
                  => p.medication_reminders /\ p.email_notifications
            /\ outbound'.sms.called
                  => p.medication_reminders /\ p.sms_notifications]_vars

\* C27 witness: a manual reminder of a user with the medication toggle off
\* and both channel toggles on has left its row and attempted no channel.
C27_Witness ==
    /\ outbound.caller = "remind"
    /\ outbound.http = 200
    /\ prefs[1].exists
    /\ ~prefs[1].medication_reminders
    /\ prefs[1].email_notifications
    /\ prefs[1].sms_notifications
    /\ contacts[1].at
    /\ Len(notifications) = 1
    /\ notifications[1].type = "medication_reminder"
    /\ ~outbound.email.called
    /\ ~outbound.sms.called

-----------------------------------------------------------------------------
(* C28 *)

\* The keys of the worker's reminder marks for a user's schedule.
MarksOf(cache, user_id, sid) ==
    {key \in DOMAIN cache : key[1] = user_id /\ key[2] = sid}

\* C28: a manual reminder for a schedule consults and updates the cache
\* entry the worker uses for that user, schedule and slot.  An accepted
\* request that names a schedule is not served while the worker's mark of
\* a slot of the schedule is younger than the resend guard, and it leaves
\* a mark of the schedule with the instant of the request.
C28_ManualReminderUsesCache ==
    [][IsRemind =>
        LET uid == outbound'.user_id
            sid == notifications'[Len(notifications')].schedule_id
        IN  sid # None =>
               /\ \A key \in MarksOf(reminder_cache, uid, sid) :
                     clock - reminder_cache[key] >= ResendGuardMin
               /\ \E key \in MarksOf(reminder_cache', uid, sid) :
                     reminder_cache'[key] = clock]_vars

-----------------------------------------------------------------------------
(* C29 *)

\* C29: the eviction at the end of a tick leaves no deduplication cache
\* entry older than 2 days, of any kind: no initial-send mark, no retry
\* counter, no missed latch.
C29_NoEntryOlderThanTwoDays ==
    [][IsTick =>
        /\ \A k \in DOMAIN reminder_cache' :
              ~(reminder_cache'[k] < Cutoff(clock'))
        /\ \A k \in DOMAIN retry_cache' :
              ~(retry_cache'[k].ts < Cutoff(clock'))
        /\ \A k \in DOMAIN missed_cache' :
              ~(missed_cache'[k] < Cutoff(clock'))]_vars

-----------------------------------------------------------------------------
(* C30 *)

\* Reminders of either kind ever sent for the instance, by this process or
\* the one before the restart.
RemindersEver(sid, dt) ==
    Titled(notifications, sid, dt, "Medication Reminder")
        \cup Titled(notifications, sid, dt, "Medication Reminder (Follow-up)")

\* C30 as stated: a single restart causes at most one extra reminder for a
\* slot.  An uninterrupted run sends at most MaxRetryCount reminders for a
\* slot (C6), so with one restart a slot gets at most one more.
C30_Original ==
    restarts = 1 =>
        \A sid \in ScheduleIds, dt \in Instants :
            Cardinality(RemindersEver(sid, dt)) <= MaxRetryCount + 1

\* C30 amended: a single restart causes at most two extra reminders for a
\* slot: the process started by the restart sends at most MaxRetryCount
\* reminders of its own, so over both lifetimes a slot gets at most twice
\* MaxRetryCount.
C30_AtMostTwoExtraReminders ==
    restarts = 1 =>
        \A sid \in ScheduleIds, dt \in Instants :
            Cardinality(RemindersEver(sid, dt)) <= MaxRetryCount + MaxRetryCount

\* C30 witness: the 08:00 dose got two reminders before the restart and
\* two more from the restarted process.
C30_Witness ==
    /\ restarts = 1
    /\ Cardinality(RemindersEver(1, 8 * 60)) = 4
    /\ Cardinality(RemindersInLife(1, 8 * 60)) = 2
    /\ LedgerOf(ledger, 1, 8 * 60) = {}

-----------------------------------------------------------------------------
(* C31 *)

\* The schedule row has an entry that is no time of day.
HasMalformedEntry(row) ==
    \E k \in DOMAIN row.times : ParseTimeOfDay(row.times[k]) = None

\* C31: a malformed entry of a time list is skipped on its own.  In a
\* tick, every well-formed entry of a schedule that also lists a malformed
\* one, before or after it, is evaluated: outside quiet hours an untaken
\* dose at most 15 minutes old has its initial reminder after the tick, an
\* untaken dose more than 60 minutes old has its missed row, and the tick
\* ends without an exception.
C31_MalformedEntrySkippedAlone ==
    [][IsTick =>
        \A r \in EvaluatedRefs(clock') :
            LET row == schedules[r[1]]
                dt == InstantOf(r, clock')
                elapsed == clock' - dt
            IN  (/\ HasMalformedEntry(row)
                 /\ 0 <= elapsed
                 /\ LedgerOf(ledger, row.id, dt) = {})
                => /\ tick_error' = None
                   /\ (elapsed <= InitialWindowMin
                          /\ ~QuietFor(row.user_id, clock'))
                      => Titled(notifications', row.id, dt,
                                "Medication Reminder") # {}
                   /\ elapsed > MissedAfterMin
                      => SchedulerRows(ledger', row.id, dt) # {}]_vars

\* C31 witness: the 23:30 dose, listed after the entry 8:00:00, got its
\* initial reminder in the tick that just ran.
C31_Witness ==
    /\ \E k \in DOMAIN schedules[1].times :
          /\ ParseTimeOfDay(schedules[1].times[k]) = None
          /\ \E m \in DOMAIN schedules[1].times :
                m > k /\ ParseTimeOfDay(schedules[1].times[m]) = 23 * 60 + 30
    /\ clock >= 23 * 60 + 30
    /\ CacheKey(1, 1, 23 * 60 + 30) \in DOMAIN reminder_cache
    /\ reminder_cache[CacheKey(1, 1, 23 * 60 + 30)] = clock
    /\ Titled(notifications, 1, 23 * 60 + 30, "Medication Reminder") # {}

-----------------------------------------------------------------------------
(* C32 *)

\* The schedule's column times holds no list with an entry: it is NULL,
\* not a list, not parseable, or the empty list.
HasNoTimeList(row) ==
    \/ row.times_kind \notin {"list", "json_list"}
    \/ row.times = <<>>

\* C32: a schedule whose time list is empty, missing, not a list or not
\* parseable produces no slot: no tick creates a notification or a ledger
\* row for it.
C32_NoSlotsWithoutTimeList ==
    \A j \in DOMAIN schedules :
        HasNoTimeList(schedules[j])
            => /\ \A i \in DOMAIN notifications :
                     notifications[i].schedule_id # schedules[j].id
               /\ \A i \in DOMAIN ledger :
                     ledger[i].schedule_id # schedules[j].id

\* C32 witness: schedule 1 holds a text that is no JSON; ticks have run
\* past 08:00, schedule 2 got its reminder and schedule 1 got nothing.
C32_Witness ==
    /\ schedules[1].times_kind = "text"
    /\ schedules[1].times # <<>>
    /\ clock >= 8 * 60 + 5
    /\ Titled(notifications, 2, 8 * 60, "Medication Reminder") # {}
    /\ \A i \in DOMAIN notifications : notifications[i].schedule_id # 1

-----------------------------------------------------------------------------
(* C33 *)

\* The schedule is switched off, or the day is before its start date or
\* after its end date.
OutsideValidity(row, day) ==
    \/ ~row.active
    \/ row.start_date # None /\ row.start_date > day
    \/ row.end_date # None /\ row.end_date < day

\* Rows (by position) that carry the schedule's id.
RowsOfSchedule(rows, sid) ==
    {i \in DOMAIN rows : rows[i].schedule_id = sid}

\* C33: a schedule that is inactive, has not started or has ended on the
\* day a tick evaluates contributes no slots: the tick creates no
\* notification and no ledger row for it.
C33_NoSlotsOutsideValidity ==
    [][IsTick =>
        \A j \in DOMAIN schedules :
            OutsideValidity(schedules[j], DayOf(clock'))
                => /\ RowsOfSchedule(notifications', schedules[j].id)
                         = RowsOfSchedule(notifications, schedules[j].id)
                   /\ RowsOfSchedule(ledger', schedules[j].id)
                         = RowsOfSchedule(ledger, schedules[j].id)]_vars

\* C33 witness: the schedule ended on day 0; its 23:30 dose of day 0 got
\* its reminder, and ticks of day 1 have run without one for the 00:00
\* dose of day 1.
C33_Witness ==
    /\ schedules[1].active
    /\ schedules[1].end_date = 0
    /\ clock > MinutesPerDay
    /\ Titled(notifications, 1, 23 * 60 + 30, "Medication Reminder") # {}
    /\ NotifsOf(notifications, 1, MinutesPerDay) = {}
    /\ LedgerOf(ledger, 1, MinutesPerDay) = {}

-----------------------------------------------------------------------------
(* C34 *)

\* C34: a reminder whose dispatch raised is attempted again by the next
\* tick while the slot is in the same window.  Stated for the initial
\* reminder: when the last tick raised in create_notification for a slot
\* in its initial window (the tick stopped at the slot's schedule, the
\* slot's mark carries the instant of that tick and the slot has no retry
\* counter), a next tick that reaches the slot while it is still at most
\* 15 minutes old, untaken and outside quiet hours calls
\* create_notification for it again.
C34_FailedReminderIsRetried ==
    [][IsTick =>
        \A r \in EvaluatedRefs(clock') :
            LET row == schedules[r[1]]
                dt == InstantOf(r, clock')
                key == CacheKey(row.user_id, row.id, dt)
            IN  (/\ tick_error = row.id
                 /\ tick_error' \in {None, row.id}
                 /\ key \in DOMAIN reminder_cache
                 /\ reminder_cache[key] = clock
                 /\ key \notin DOMAIN retry_cache
                 /\ clock' - dt <= InitialWindowMin
                 /\ LedgerOf(ledger, row.id, dt) = {}
                 /\ ~QuietFor(row.user_id, clock'))
                => Titled(notifications', row.id, dt, "Medication Reminder")
                     # Titled(notifications, row.id, dt, "Medication Reminder")]_vars

-----------------------------------------------------------------------------
(* C35 *)

\* The threads that have returned True for a key.
GrantedFor(cs, key) ==
    {t \in Threads : cs[t].pc = "returned" /\ cs[t].granted /\ cs[t].key = key}

\* C35: the check-and-mark of _should_send_med_reminder is atomic.  (1) The
\* cache changes only in a step of the thread that holds the lock.  (2) A
\* call that returns has answered, and has left the cache, as the whole
\* function applied at once to the cache found when the lock was taken.
\* (3) Two threads that were both granted the same key read clocks at least
\* 50 minutes apart: of two concurrent calls at most one is granted.
C35_CheckAndMarkIsAtomic ==
    [][/\ reminder_cache' # reminder_cache
            => \E t \in Threads :
                   /\ med_reminder_lock = t
                   /\ callers[t].pc \in {"set", "cleanup"}
                   /\ callers'[t].pc # callers[t].pc
       /\ \A t \in Threads :
              (callers[t].pc # "returned" /\ callers'[t].pc = "returned")
              => LET whole == should_send_med_reminder(
                                  callers'[t].seen, callers'[t].key,
                                  callers'[t].now)
                 IN  /\ callers'[t].granted = whole.granted
                     /\ reminder_cache' = whole.cache
       /\ \A key \in GuardKeys :
              \A t1, t2 \in GrantedFor(callers', key) :
                  t1 # t2 =>
                      \/ callers'[t1].now - callers'[t2].now >= ResendGuardMin
                      \/ callers'[t2].now - callers'[t1].now >= ResendGuardMin
      ]_vars

\* Reached: both threads asked for the same key at the same instant, both
\* have returned, one was granted and the other refused.
C35_Witness ==
    /\ callers[1].pc = "returned"
    /\ callers[2].pc = "returned"
    /\ callers[1].key = callers[2].key
    /\ callers[1].now = callers[2].now
    /\ callers[1].calls = 1
    /\ callers[2].calls = 1
    /\ callers[1].granted # callers[2].granted
    /\ reminder_cache[callers[1].key] = callers[1].now

-----------------------------------------------------------------------------
(* C36 *)

\* C36: a missed-dose alert exists only for a durably recorded miss.  Ticks
\* are single steps, so every state is the end of a tick: every persisted
\* "Missed Dose Alert" notification of a slot has a committed missed row of
\* that slot in the ledger, also when the tick raised after the alert.
C36_AlertOnlyForRecordedMiss ==
    \A i \in DOMAIN notifications :
        notifications[i].title = "Missed Dose Alert" =>
            \E k \in LedgerOf(ledger, notifications[i].schedule_id,
                              notifications[i].slot) :
                ledger[k].status = "missed"

-----------------------------------------------------------------------------
(* C37 *)

\* The scheduler's missed rows (by position) of the dose instance.
MissedRows(rows, sid, dt) ==
    {i \in SchedulerRows(rows, sid, dt) : rows[i].status = "missed"}

\* C37: a missed-dose alert suppressed by quiet hours is never sent later.
\* Once the scheduler's missed row of a slot is in the ledger and no
\* "Missed Dose Alert" of the slot exists, no tick creates one, whatever
\* the quiet hours are by then and whether or not the latch survived a
\* restart.
C37_SuppressedAlertNeverSent ==
    [][IsTick =>
        \A sid \in ScheduleIds, dt \in Instants :
            (/\ MissedRows(ledger, sid, dt) # {}
             /\ Titled(notifications, sid, dt, "Missed Dose Alert") = {})
            => Titled(notifications', sid, dt, "Missed Dose Alert") = {}]_vars

\* Reached: the 08:00 dose was recorded as missed and latched without an
\* alert, and a later tick, outside quiet hours, has sent the initial
\* reminder of the 23:30 dose.
C37_Witness ==
    LET morning == CacheKey(1, 1, 8 * 60)
        night == CacheKey(1, 1, 23 * 60 + 30)
    IN  /\ MissedRows(ledger, 1, 8 * 60) # {}
        /\ Titled(notifications, 1, 8 * 60, "Missed Dose Alert") = {}
        /\ Titled(notifications, 1, 23 * 60 + 30, "Medication Reminder") # {}
        /\ morning \in DOMAIN missed_cache
        /\ night \in DOMAIN reminder_cache
        /\ reminder_cache[night] > missed_cache[morning]

-----------------------------------------------------------------------------
(* C38 *)

\* C38: for an untaken slot that is more than 30 and at most 60 minutes old
\* a tick does nothing: it creates no notification and no ledger row for
\* the slot and leaves the slot's entries in the three caches as they are.
C38_IdleBetweenRetryAndMissed ==
    [][IsTick =>
        \A r \in EvaluatedRefs(clock') :
            LET row == schedules[r[1]]
                dt == InstantOf(r, clock')
                elapsed == clock' - dt
            IN  (/\ RetryWindowMin < elapsed
                 /\ elapsed <= MissedAfterMin
                 /\ LedgerOf(ledger, row.id, dt) = {})
                => /\ NotifsOf(notifications', row.id, dt)
                        = NotifsOf(notifications, row.id, dt)
                   /\ LedgerOf(ledger', row.id, dt) = {}
                   /\ CacheEntryUnchanged(CacheKey(row.user_id, row.id, dt))]_vars

\* Reached: the last tick ran more than 30 and at most 60 minutes after
\* the 08:00 dose, which has its reminder and its follow-ups in the caches
\* and no ledger entry.
C38_Witness ==
    LET key == CacheKey(1, 1, 8 * 60)
    IN  /\ DayOf(clock) = 0
        /\ clock - 8 * 60 > RetryWindowMin
        /\ clock - 8 * 60 <= MissedAfterMin
        /\ LedgerOf(ledger, 1, 8 * 60) = {}
        /\ key \in DOMAIN reminder_cache
        /\ key \in DOMAIN retry_cache
        /\ Titled(notifications, 1, 8 * 60, "Medication Reminder (Follow-up)") # {}

-----------------------------------------------------------------------------
(* C39 *)

\* C39: the bounds of the quiet hours are inclusive at both ends, and a
\* range whose start equals its end holds all day.  With both bounds set,
\* _is_quiet_hours answers True for a time of day equal to the start or to
\* the end, and for every time of day when start = end.
C39_QuietBoundsInclusive ==
    (/\ quiet_call.done
     /\ quiet_call.start_time # None
     /\ quiet_call.end_time # None)
    => LET t == TimeOfDay(quiet_call.now)
       IN  /\ t = quiet_call.start_time => quiet_call.result
           /\ t = quiet_call.end_time => quiet_call.result
           /\ quiet_call.start_time = quiet_call.end_time => quiet_call.result

\* Reached: 02:00 was found inside the range 12:00-12:00.
C39_Witness ==
    /\ quiet_call.done
    /\ quiet_call.start_time = 12 * 60
    /\ quiet_call.end_time = 12 * 60
    /\ TimeOfDay(quiet_call.now) = 2 * 60
    /\ quiet_call.result

====
